---- MODULE Spec2Model ----
(***************************************************************************)
(* Yelp/requirements-tools: the dependency closure walker, the             *)
(* reconciliation of pin files against minimal manifests, the session      *)
(* fixtures, the unpinned detector, the line reader and the duplicate      *)
(* test of requirements_tools/check_requirements.py, the re-executed main  *)
(* of requirements_tools/upgrade_requirements.py, the JavaScript checks of *)
(* check_requirements.py and print_req of visualize_requirements.py.       *)
(*                                                                         *)
(* The runs specified: the walker called on a requirement (SpecWalk,       *)
(* FairSpecWalk); test_top_level_dependencies in a directory (Spec); a     *)
(* pytest session up to test_requirements_pinned (SpecPinned); either of   *)
(* the two (SpecChecks); parse_requirement on a string, and again on what  *)
(* str() makes of its result (SpecParse); get_raw_requirements on a file   *)
(* as it stands on disk (SpecRead); test_no_duplicate_requirements         *)
(* (SpecDup); upgrade-requirements alone (FairSpecUpgrade) and followed by *)
(* test_top_level_dependencies (SpecUpgradeCheck);                         *)
(* test_javascript_package_versions (SpecJs); parse_npm_dependency_tree    *)
(* and npm_installed_reason (SpecNpm); print_req (FairSpecViz); a pytest   *)
(* session whose metadata asks extras of other projects                    *)
(* (SpecPinnedExtras); the walker or the loop of installed() on a working  *)
(* set (SpecWorklists).  Manifests and metadata ask only for extras the    *)
(* project declares; in the runs over manifests other than SpecRead every  *)
(* line parses and carries no marker.                                      *)
(*                                                                         *)
(* Text is modelled structurally: a requirement line 'name[extras]op ver'  *)
(* is the record [name, extras, specs]; a parsed pkg_resources.Requirement *)
(* is the record [key, extras, specs].                                     *)
(***************************************************************************)
EXTENDS Integers, Sequences, FiniteSets, TLC

VARIABLES
    installed_things,       \* module global: key -> installed distribution
    exists,                 \* os.path.exists of each manifest
    files,                  \* the lines of each manifest read so far
    pc,                     \* position of the entry point being run
    error,                  \* the exception raised, NoError while none
    \* get_pinned_versions_from_requirement
    wpc,                    \* position inside the walker
    requirement,            \* its argument (the seed)
    expected_pinned,        \* the result set being built
    requirements_to_parse,  \* the worklist (a list used as a stack)
    already_parsed,         \* visited (key, extras) pairs
    req,                    \* the requirement popped last
    sub_iter,               \* what `for sub_requirement in ...` has left
    \* _expected_pinned and test_top_level_dependencies
    cur,                    \* the environment whose expected set is computed
    minimal_iter,           \* what `for req, _ in get_raw_requirements(filename)` has left
    ret,                    \* _expected_pinned: the set being built
    expected_pinned_prod,
    expected_pinned_dev,
    environments,           \* the list of (expected, pin file, minimal file)
    env_idx,                \* index of the environment compared next
    warned,                 \* the dev warning was printed
    \* the session fixtures and test_requirements_pinned
    fixtures,               \* the session fixtures that have passed
    raw_requirements,       \* _get_all_raw_requirements(): (requirement, filename) entries
    incorrect,              \* integrity: the version mismatches collected
    pinned_versions,        \* find_unpinned_requirements: key -> pinned version
    unpinned,               \* find_unpinned_requirements: the result being built
    entry_idx,              \* index of the entry the running loop looks at next
    \* parse_requirement called on a string, and str() of its result
    reqin,                  \* the string given
    parsed,                 \* parse_requirement(reqin)
    printed,                \* str(parsed)
    reparsed,               \* parse_requirement(printed)
    \* get_lines_from_file and get_raw_requirements called on a file
    reqfile,                \* the name of the file
    requirements_file,      \* the lines of the open file, as they stand in it
    stripped_lines,         \* what get_lines_from_file returned
    line_idx,               \* index of the line the loop looks at next
    raw_ret,                \* get_raw_requirements: the list being built
    \* test_no_duplicate_requirements
    duplicates,             \* the (key, filename) pairs collected
    dup_idx,                \* index of the manifest scanned next
    \* upgrade_requirements.main
    exec_count,             \* args.exec_count
    tempdir,                \* args.tempdir is given
    tempdir_on_disk,        \* the directory tempfile.mkdtemp() made is there
    vcs_exists,             \* file_exists of the two vcs manifests
    reexecs,                \* the re-execs made so far for unmet dependencies
    upgraded,               \* main has run to its end
    \* test_javascript_package_versions
    js_files,               \* bower.json and package.json as they stand on disk
    js_packages,            \* package name -> the versions declared for it
    js_left,                \* what `for package_name, versions in ...` has left
    \* parse_npm_dependency_tree and npm_installed_reason
    npm_tree,               \* the tree `npm list --json` gave
    npm_list,               \* parse_npm_dependency_tree(npm_tree)
    npm_stack,              \* the (package, version) of every call not yet returned
    npm_chain,              \* the wanters found so far, then the returned chain
    \* visualize_requirements.print_req
    viz_stack,              \* the calls of print_req that have not returned
    viz_out,                \* the lines printed
    \* installed() of upgrade-requirements, run one iteration at a time
    installed_locals,       \* requirements_to_parse, already_parsed, expected_pinned, unmet
    installed_loops         \* the iterations of its while loop so far

pin_vars == <<fixtures, raw_requirements, incorrect, pinned_versions, unpinned,
              entry_idx>>

walk_vars == <<wpc, requirement, expected_pinned, requirements_to_parse,
               already_parsed, req, sub_iter>>

top_vars == <<cur, minimal_iter, ret, expected_pinned_prod, expected_pinned_dev,
              environments, env_idx, warned>>

env_vars == <<installed_things, exists>>

parse_vars == <<reqin, parsed, printed, reparsed>>

read_vars == <<reqfile, requirements_file, stripped_lines, line_idx, raw_ret>>

dup_vars == <<duplicates, dup_idx>>

upgrade_vars == <<exec_count, tempdir, tempdir_on_disk, vcs_exists, reexecs, upgraded>>

js_vars == <<js_files, js_packages, js_left>>

\* The variables of the JavaScript checks and of the visualizer.
npm_vars == <<npm_tree, npm_list, npm_stack, npm_chain>>

viz_vars == <<viz_stack, viz_out>>

work_vars == <<installed_locals, installed_loops>>

more_vars == <<js_vars, npm_vars, viz_vars, work_vars>>

\* The variables of the runs of single functions, of the other tests and of
\* the tools.
unit_vars == <<parse_vars, read_vars, dup_vars, upgrade_vars, more_vars>>

vars == <<installed_things, exists, files, pc, error, wpc, requirement,
          expected_pinned, requirements_to_parse, already_parsed, req, sub_iter,
          cur, minimal_iter, ret, expected_pinned_prod, expected_pinned_dev,
          environments, env_idx, warned, fixtures, raw_requirements, incorrect,
          pinned_versions, unpinned, entry_idx, reqin, parsed, printed, reparsed,
          reqfile, requirements_file, stripped_lines, line_idx, raw_ret,
          duplicates, dup_idx, exec_count, tempdir, tempdir_on_disk, vcs_exists, reexecs,
          upgraded,
          js_files, js_packages, js_left, npm_tree, npm_list, npm_stack, npm_chain,
          viz_stack, viz_out, installed_locals, installed_loops>>

----------------------------------------------------------------------------
(* The universe of packages.                                               *)

\* Project keys that can be installed.
Keys == {"a", "b", "c"}

\* A key that occurs in manifests and metadata but is never installed.
MissingKey == "m"

\* The extras each project declares (the keys of its dep_map besides the
\* base section).
DeclaredExtras(k) == IF k = "b" THEN {"x", "y"} ELSE {}

BaseSection == "base"

Sections(k) == {BaseSection} \cup DeclaredExtras(k)

NoError == [kind |-> "none"]

None == [none |-> TRUE]

\* A parsed requirement: key, extras (a tuple), specs (a tuple of <<op, version>>).
Req(key, extras, specs) == [key |-> key, extras |-> extras, specs |-> specs]

\* The requirements that installed metadata (install_requires, extras_require)
\* may name: a, b, b[x], b[x,y], c>=0.5, m.
SubRequirements ==
    { Req("a", <<>>, <<>>),
      Req("b", <<>>, <<>>),
      Req("b", <<"x">>, <<>>),
      Req("b", <<"x", "y">>, <<>>),
      Req("c", <<>>, << <<">=", "0.5">> >>),
      Req(MissingKey, <<>>, <<>>) }

\* The version each project is installed at.
InstalledVersion(k) == IF k = "c" THEN "1.0-rc1" ELSE "1.0"

\* Bound: the number of dependency edges in the installed metadata.
MaxEdges == 3

EdgeSources == UNION { { <<k, s>> : s \in Sections(k) } : k \in Keys }

EmptyDepMaps == [k \in Keys |-> [s \in Sections(k) |-> <<>>]]

InList(list, x) == \E i \in 1..Len(list) : list[i] = x

RECURSIVE DepMaps(_, _, _)
\* Every assignment of requirement lists to the sections of the projects
\* with at most n edges in total, from the sections in `sources` to the
\* requirements in `targets`, and no requirement twice in one list.
DepMaps(sources, targets, n) ==
    IF n = 0 THEN {EmptyDepMaps}
    ELSE LET G == DepMaps(sources, targets, n - 1)
         IN  G \cup { [t[1] EXCEPT ![t[2][1]][t[2][2]] = Append(@, t[3])] :
                        t \in { u \in G \X sources \X targets :
                                  ~InList(u[1][u[2][1]][u[2][2]], u[3]) } }

\* A pkg_resources distribution: key, version and its parsed metadata.
Distribution(k, dm) == [key |-> k, version |-> InstalledVersion(k), dep_map |-> dm]

\* The working sets with every project installed and at most n edges.
WorkingSets(sources, targets, n) ==
    { [k \in Keys |-> Distribution(k, g[k])] : g \in DepMaps(sources, targets, n) }

----------------------------------------------------------------------------
(* pkg_resources.Distribution.requires(extras): the base section followed  *)
(* by the section of every extra asked for, in the order asked.            *)

RECURSIVE ExtraSections(_, _)
ExtraSections(dm, extras) ==
    IF extras = <<>> THEN <<>>
    ELSE dm[Head(extras)] \o ExtraSections(dm, Tail(extras))

requires(dist, extras) == dist.dep_map[BaseSection] \o ExtraSections(dist.dep_map, extras)

----------------------------------------------------------------------------
(* Text.                                                                   *)

\* f'{key}=={version}': the text of an exact pin.
FormatPin(key, version) == [name |-> key, extras |-> <<>>, specs |-> << <<"==", version>> >>]

\* '{}[{}]'.format(key, ','.join(extras)) if extras else key
FormatParent(r) == IF r.extras # <<>> THEN [name |-> r.key, extras |-> r.extras]
                   ELSE [name |-> r.key, extras |-> <<>>]

----------------------------------------------------------------------------
(* get_pinned_versions_from_requirement                                    *)

\* Lines 288-290: the locals right after the call.
WalkCall(seed) ==
    /\ requirement' = seed
    /\ expected_pinned' = {}
    /\ requirements_to_parse' = <<seed>>
    /\ already_parsed' = { <<seed.key, seed.extras>> }
    /\ req' = None
    /\ sub_iter' = <<>>
    /\ wpc' = "while"

\* A walker that remembers visited requirements by name alone.
ParsedKeyByName(r) == <<r.key, <<>>>>

\* Line 295: the key under which a requirement is remembered as visited.
ParsedKey(r) == <<r.key, r.extras>>

\* A walker that takes every requirement for one it has not queued before.
NeverParsed(key) == TRUE

\* Line 296: has this requirement not been queued before?
NotParsed(key) == key \notin already_parsed

\* A walker that records the version a dependency edge asks for.
EdgePin(sub_requirement) ==
    IF sub_requirement.specs # <<>>
    THEN FormatPin(sub_requirement.key, sub_requirement.specs[1][2])
    ELSE FormatPin(sub_requirement.key,
                   installed_things[sub_requirement.key].version)

\* Lines 313-315: the pin recorded for a dependency, from the installed
\* distribution of that key.
InstalledPin(sub_requirement) ==
    LET installed == installed_things[sub_requirement.key]
    IN  FormatPin(installed.key, installed.version)

\* A walker that reads the last requirement of the worklist and leaves it there.
WalkPeek ==
    /\ wpc = "while"
    /\ requirements_to_parse # <<>>
    /\ LET r == requirements_to_parse[Len(requirements_to_parse)]
       IN  /\ req' = r
           /\ sub_iter' = requires(installed_things[r.key], r.extras)
    /\ wpc' = "for"
    /\ UNCHANGED <<env_vars, unit_vars, pin_vars, files, pc, error, requirement, expected_pinned,
                   requirements_to_parse, already_parsed, top_vars>>

\* Lines 291-294: the loop test, the pop, and the call of requires().
WalkPop ==
    /\ wpc = "while"
    /\ requirements_to_parse # <<>>
    /\ LET r == requirements_to_parse[Len(requirements_to_parse)]
       IN  /\ req' = r
           /\ requirements_to_parse' =
                  SubSeq(requirements_to_parse, 1, Len(requirements_to_parse) - 1)
           /\ sub_iter' = requires(installed_things[r.key], r.extras)
    /\ wpc' = "for"
    /\ UNCHANGED <<env_vars, unit_vars, pin_vars, files, pc, error, requirement, expected_pinned,
                   already_parsed, top_vars>>

\* A walker that passes over a dependency that is not installed.
WalkSubSkipUnmet ==
    /\ wpc = "for"
    /\ sub_iter # <<>>
    /\ LET sub_requirement == Head(sub_iter)
           key == ParsedKey(sub_requirement)
           met == sub_requirement.key \in DOMAIN installed_things
           fresh == met /\ NotParsed(key)
       IN  /\ requirements_to_parse' =
                  IF fresh THEN Append(requirements_to_parse, sub_requirement)
                  ELSE requirements_to_parse
           /\ already_parsed' = IF fresh THEN already_parsed \cup {key}
                                ELSE already_parsed
           /\ expected_pinned' =
                  IF met THEN expected_pinned \cup { InstalledPin(sub_requirement) }
                  ELSE expected_pinned
           /\ sub_iter' = Tail(sub_iter)
    /\ UNCHANGED <<env_vars, unit_vars, pin_vars, files, pc, error, wpc, requirement, req, top_vars>>

\* Lines 295-315: one pass through the body of the for loop.
WalkSub ==
    /\ wpc = "for"
    /\ sub_iter # <<>>
    /\ LET sub_requirement == Head(sub_iter)
           key == ParsedKey(sub_requirement)
           fresh == NotParsed(key)
       IN  /\ requirements_to_parse' =
                  IF fresh THEN Append(requirements_to_parse, sub_requirement)
                  ELSE requirements_to_parse
           /\ already_parsed' = IF fresh THEN already_parsed \cup {key}
                                ELSE already_parsed
           /\ IF sub_requirement.key \notin DOMAIN installed_things
              THEN /\ error' = [kind |-> "UnmetDependency",
                                missing |-> sub_requirement.key,
                                parent |-> FormatParent(req)]
                   /\ wpc' = "raised"
                   /\ pc' = "failed"
                   /\ UNCHANGED <<expected_pinned, sub_iter>>
              ELSE /\ expected_pinned' = expected_pinned \cup
                          { InstalledPin(sub_requirement) }
                   /\ sub_iter' = Tail(sub_iter)
                   /\ UNCHANGED <<wpc, pc, error>>
    /\ UNCHANGED <<env_vars, unit_vars, pin_vars, files, requirement, req, top_vars>>

\* The for loop is exhausted: back to the loop test.
WalkSubEnd ==
    /\ wpc = "for"
    /\ sub_iter = <<>>
    /\ wpc' = "while"
    /\ UNCHANGED <<env_vars, unit_vars, pin_vars, files, pc, error, requirement, expected_pinned,
                   requirements_to_parse, already_parsed, req, sub_iter, top_vars>>

\* Line 316: the worklist is empty, the set is returned.
WalkReturn ==
    /\ wpc = "while"
    /\ requirements_to_parse = <<>>
    /\ wpc' = "returned"
    /\ pc' = IF pc = "walking" THEN "done" ELSE pc
    /\ UNCHANGED <<env_vars, unit_vars, pin_vars, files, error, requirement, expected_pinned,
                   requirements_to_parse, already_parsed, req, sub_iter, top_vars>>

----------------------------------------------------------------------------
(* The manifests.                                                          *)

ProdMinimal == "requirements-minimal.txt"
ProdPins == "requirements.txt"
DevMinimal == "requirements-dev-minimal.txt"
DevPins == "requirements-dev.txt"

FileNames == {ProdMinimal, ProdPins, DevMinimal, DevPins}

\* What is known of a file's lines: nothing before the program opens it.
Unread == [read |-> FALSE, lines |-> <<>>]
ReadAs(lines) == [read |-> TRUE, lines |-> lines]

\* A requirement line: 'name[extras]op version,...'.
Line(name, extras, specs) == [name |-> name, extras |-> extras, specs |-> specs]

\* A requirement string 'name[extras]specs; marker': the text of a line
\* with its environment marker ("none" when it has none, else what the
\* marker evaluates to here) and whether blanks stand around its tokens.
ReqString(line, marker, spaced) ==
    [name |-> line.name, extras |-> line.extras, specs |-> line.specs,
     marker |-> marker, spaced |-> spaced]

\* pkg_resources.safe_version: the canonical spelling of a version.
safe_version(version) ==
    CASE version = "1.0-rc1" -> "1.0rc1"
      [] OTHER -> version

\* Requirement.key: the project name, lower-cased.
KeyOf(name) ==
    CASE name = "A" -> "a"
      [] name = "B" -> "b"
      [] name = "C" -> "c"
      [] OTHER -> name

\* parse_requirement (lines 21-36): the requirement of a line, its versions
\* normalized.
parse_requirement(line) ==
    Req(KeyOf(line.name), line.extras,
        [i \in 1..Len(line.specs) |->
            <<line.specs[i][1], safe_version(line.specs[i][2])>>])

Range(seq) == { seq[i] : i \in 1..Len(seq) }

\* An equality of requirements that does not look at the extras.
HashCmpWithoutExtras(r) == [key |-> r.key, specifier |-> Range(r.specs), extras |-> {}]

\* Requirement.hashCmp: what equality and hashing of requirements look at.
HashCmp(r) == [key |-> r.key, specifier |-> Range(r.specs), extras |-> Range(r.extras)]

\* left - right on sets of Requirement objects.
ReqSetMinus(left, right) ==
    { r \in left : \A o \in right : HashCmp(o) # HashCmp(r) }

\* get_raw_requirements (lines 47-82) on lines that all parse and carry no
\* marker: every line parsed, paired with the file name.
get_raw_requirements(lines, filename) ==
    [i \in 1..Len(lines) |-> <<parse_requirement(lines[i]), filename>>]

\* Bound: the number of lines of a minimal manifest.
MaxMinimal == 2

\* Bound: the number of lines of a pin file.
MaxPins == 3

\* The lines minimal manifests are drawn from: a, m, b[x], c.
MinimalLines ==
    << Line("a", <<>>, <<>>),
       Line(MissingKey, <<>>, <<>>),
       Line("b", <<"x">>, <<>>),
       Line("c", <<>>, <<>>) >>

\* The lines pin files are drawn from:
\* a==1.0, a==2.0, b==1.0, b[x]==1.0, c==1.0-rc1, 'C == 1.0rc1'.
PinLines ==
    << Line("a", <<>>, << <<"==", "1.0">> >>),
       Line("a", <<>>, << <<"==", "2.0">> >>),
       Line("b", <<>>, << <<"==", "1.0">> >>),
       Line("b", <<"x">>, << <<"==", "1.0">> >>),
       Line("c", <<>>, << <<"==", "1.0-rc1">> >>),
       ReqString(Line("C", <<>>, << <<"==", "1.0rc1">> >>), "none", TRUE) >>

RECURSIVE Pick(_, _, _)
\* The lines of `universe` at the positions in `at`, from position i on, in order.
Pick(universe, at, i) ==
    IF i > Len(universe) THEN <<>>
    ELSE (IF i \in at THEN <<universe[i]>> ELSE <<>>) \o Pick(universe, at, i + 1)

RECURSIVE SmallSets(_, _)
\* The subsets of S with at most n elements.
SmallSets(S, n) ==
    IF n = 0 THEN {{}}
    ELSE LET T == SmallSets(S, n - 1)
         IN  T \cup { t \cup {x} : <<t, x>> \in T \X S }

\* The files of at most n lines taken from `universe`, in its order.
Contents(universe, n) ==
    { Pick(universe, at, 1) : at \in SmallSets(1..Len(universe), n) }

MinimalContents == Contents(MinimalLines, MaxMinimal)

\* What a read of file f may find: the lines the run has already read from
\* it or written to it, else any of `universe`.
KnownOr(f, universe) == IF files[f].read THEN {files[f].lines} ELSE universe

PinContents == Contents(PinLines, MaxPins)

MinimalOf(e) == IF e = "prod" THEN ProdMinimal ELSE DevMinimal
PinsOf(e) == IF e = "prod" THEN ProdPins ELSE DevPins

----------------------------------------------------------------------------
(* test_top_level_dependencies                                             *)

\* Lines 346-354: with no manifest at all the test is skipped.
TopSkip ==
    /\ pc = "start"
    /\ \A f \in FileNames : ~exists[f]
    /\ pc' = "skipped"
    /\ UNCHANGED <<env_vars, unit_vars, pin_vars, files, error, walk_vars, top_vars>>

\* Lines 356-358: the call of _expected_pinned for the prod environment.
TopBegin ==
    /\ pc = "start"
    /\ \E f \in FileNames : exists[f]
    /\ cur' = "prod"
    /\ pc' = "read_minimal"
    /\ UNCHANGED <<env_vars, unit_vars, pin_vars, files, error, walk_vars, minimal_iter, ret,
                   expected_pinned_prod, expected_pinned_dev, environments,
                   env_idx, warned>>

\* Lines 329-330 (and 40): the minimal manifest is opened; a missing file
\* is an IOError of open().
ReadMinimalMissing ==
    /\ pc = "read_minimal"
    /\ ~exists[MinimalOf(cur)]
    /\ error' = [kind |-> "FileNotFound", file |-> MinimalOf(cur)]
    /\ pc' = "failed"
    /\ UNCHANGED <<env_vars, unit_vars, pin_vars, files, walk_vars, top_vars>>

\* Lines 329-330: the minimal manifest is read.
ReadMinimal ==
    /\ pc = "read_minimal"
    /\ exists[MinimalOf(cur)]
    /\ \E lines \in KnownOr(MinimalOf(cur), MinimalContents) :
          /\ files' = [files EXCEPT ![MinimalOf(cur)] = ReadAs(lines)]
          /\ minimal_iter' = get_raw_requirements(lines, MinimalOf(cur))
    /\ ret' = {}
    /\ pc' = "expected_loop"
    /\ UNCHANGED <<env_vars, unit_vars, pin_vars, error, walk_vars, cur, expected_pinned_prod,
                   expected_pinned_dev, environments, env_idx, warned>>

\* A reading of line 337 that forgets the requirement's own pin.
NoOwnPin(r) == {}

\* Line 337: the requirement itself, at its installed version.
OwnPin(r) == { FormatPin(r.key, installed_things[r.key].version) }

\* An _expected_pinned that passes over a requirement that is not installed.
ExpectedStepSkipMissing ==
    /\ pc = "expected_loop"
    /\ minimal_iter # <<>>
    /\ LET r == Head(minimal_iter)[1]
       IN  IF r.key \notin DOMAIN installed_things
           THEN /\ minimal_iter' = Tail(minimal_iter)
                /\ UNCHANGED <<walk_vars, ret, pc, error>>
           ELSE /\ ret' = ret \cup OwnPin(r)
                /\ WalkCall(r)
                /\ minimal_iter' = Tail(minimal_iter)
                /\ pc' = "expected_walk"
                /\ UNCHANGED error
    /\ UNCHANGED <<env_vars, unit_vars, pin_vars, files, cur, expected_pinned_prod,
                   expected_pinned_dev, environments, env_idx, warned>>

\* Lines 330-338: one requirement of the minimal manifest, up to the call of
\* the walker.
ExpectedStep ==
    /\ pc = "expected_loop"
    /\ minimal_iter # <<>>
    /\ LET r == Head(minimal_iter)[1]
       IN  IF r.key \notin DOMAIN installed_things
           THEN /\ error' = [kind |-> "NotInstalled",
                             file |-> MinimalOf(cur),
                             pin_file |-> PinsOf(cur),
                             missing |-> r.key]
                /\ pc' = "failed"
                /\ UNCHANGED <<walk_vars, minimal_iter, ret>>
           ELSE /\ ret' = ret \cup OwnPin(r)
                /\ WalkCall(r)
                /\ minimal_iter' = Tail(minimal_iter)
                /\ pc' = "expected_walk"
                /\ UNCHANGED error
    /\ UNCHANGED <<env_vars, unit_vars, pin_vars, files, cur, expected_pinned_prod,
                   expected_pinned_dev, environments, env_idx, warned>>

\* Line 338: ret |= the walker's result.
ExpectedUnion ==
    /\ pc = "expected_walk"
    /\ wpc = "returned"
    /\ ret' = ret \cup expected_pinned
    /\ wpc' = "idle"
    /\ pc' = "expected_loop"
    /\ UNCHANGED <<env_vars, unit_vars, pin_vars, files, error, requirement, expected_pinned,
                   requirements_to_parse, already_parsed, req, sub_iter,
                   cur, minimal_iter, expected_pinned_prod, expected_pinned_dev,
                   environments, env_idx, warned>>

\* Lines 359-365: the environments start with (prod expected, pin, minimal).
ProdEnvironment(expected) ==
    << [expected |-> expected, pin |-> ProdPins, minimal |-> ProdMinimal] >>

\* A dev expected set from which the prod set is not taken out.
DevExpectedWhole(dev, prod) == dev

\* Line 373: overlapping prod/dev dependencies are listed in prod only.
DevExpected(dev, prod) == dev \ prod

\* Lines 339, 356-367, 379-390: _expected_pinned returns the prod set; without
\* a dev-minimal manifest the warning is printed.
ExpectedReturnProd ==
    /\ pc = "expected_loop"
    /\ minimal_iter = <<>>
    /\ cur = "prod"
    /\ expected_pinned_prod' = ret
    /\ environments' = ProdEnvironment(ret)
    /\ IF exists[DevMinimal]
       THEN /\ cur' = "dev"
            /\ pc' = "read_minimal"
            /\ UNCHANGED warned
       ELSE /\ warned' = TRUE
            /\ pc' = "compare"
            /\ UNCHANGED cur
    /\ UNCHANGED <<env_vars, unit_vars, pin_vars, files, error, walk_vars, minimal_iter, ret,
                   expected_pinned_dev, env_idx>>

\* Lines 339, 368-378: _expected_pinned returns the dev set, the prod set is
\* taken out and the dev environment appended.
ExpectedReturnDev ==
    /\ pc = "expected_loop"
    /\ minimal_iter = <<>>
    /\ cur = "dev"
    /\ expected_pinned_dev' = DevExpected(ret, expected_pinned_prod)
    /\ environments' = Append(environments,
           [expected |-> DevExpected(ret, expected_pinned_prod),
            pin |-> DevPins, minimal |-> DevMinimal])
    /\ pc' = "compare"
    /\ UNCHANGED <<env_vars, unit_vars, pin_vars, files, error, walk_vars, cur, minimal_iter, ret,
                   expected_pinned_prod, env_idx, warned>>

\* A reading of line 393 that takes the expected strings as they are.
UnparsedExpected(expected_pinned_str) ==
    { Req(s.name, s.extras, s.specs) : s \in expected_pinned_str }

\* Line 393: the expected pins, parsed.
ParsedExpected(expected_pinned_str) ==
    { parse_requirement(s) : s \in expected_pinned_str }

\* Lines 394-399 on the lines read: the requirements a pin file declares.
Declared(lines, pin_filename) ==
    { get_raw_requirements(lines, pin_filename)[i][1] : i \in 1..Len(lines) }

\* A comparison that looks for missing pins before surplus ones.
MismatchMissingFirst(env, requirements) ==
    LET expected == ParsedExpected(env.expected)
        pinned_but_not_required == ReqSetMinus(requirements, expected)
        required_but_not_pinned == ReqSetMinus(expected, requirements)
    IN  IF required_but_not_pinned # {}
        THEN [kind |-> "RequiredButNotPinned", pin |-> env.pin,
              minimal |-> env.minimal, listed |-> required_but_not_pinned]
        ELSE IF pinned_but_not_required # {}
        THEN [kind |-> "PinnedButNotRequired", pin |-> env.pin,
              minimal |-> env.minimal, listed |-> pinned_but_not_required]
        ELSE NoError

\* Lines 401-432: the outcome of comparing one environment: the first
\* mismatch, surplus before missing, or none.
Mismatch(env, requirements) ==
    LET expected == ParsedExpected(env.expected)
        pinned_but_not_required == ReqSetMinus(requirements, expected)
        required_but_not_pinned == ReqSetMinus(expected, requirements)
    IN  IF pinned_but_not_required # {}
        THEN [kind |-> "PinnedButNotRequired", pin |-> env.pin,
              minimal |-> env.minimal, listed |-> pinned_but_not_required]
        ELSE IF required_but_not_pinned # {}
        THEN [kind |-> "RequiredButNotPinned", pin |-> env.pin,
              minimal |-> env.minimal, listed |-> required_but_not_pinned]
        ELSE NoError

\* A loop that goes on to the next environment after a mismatch, keeping
\* the last one found.
CompareEvery(env, requirements) ==
    LET outcome == Mismatch(env, requirements)
    IN  /\ error' = IF outcome # NoError THEN outcome ELSE error
        /\ env_idx' = env_idx + 1
        /\ UNCHANGED pc

\* Lines 392-432: one pass through the loop over the environments.
CompareWith(env, requirements) ==
    LET outcome == Mismatch(env, requirements)
    IN  IF outcome # NoError
        THEN /\ error' = outcome
             /\ pc' = "failed"
             /\ UNCHANGED env_idx
        ELSE /\ env_idx' = env_idx + 1
             /\ UNCHANGED <<pc, error>>

\* The pin file exists and is read.
ComparePinned ==
    /\ pc = "compare"
    /\ env_idx <= Len(environments)
    /\ exists[environments[env_idx].pin]
    /\ \E lines \in KnownOr(environments[env_idx].pin, PinContents) :
          /\ files' = [files EXCEPT ![environments[env_idx].pin] = ReadAs(lines)]
          /\ CompareWith(environments[env_idx],
                         Declared(lines, environments[env_idx].pin))
    /\ UNCHANGED <<env_vars, unit_vars, pin_vars, walk_vars, cur, minimal_iter, ret,
                   expected_pinned_prod, expected_pinned_dev, environments, warned>>

\* A comparison that passes over an environment without a pin file.
CompareAbsentSkip ==
    /\ pc = "compare"
    /\ env_idx <= Len(environments)
    /\ ~exists[environments[env_idx].pin]
    /\ env_idx' = env_idx + 1
    /\ UNCHANGED <<env_vars, unit_vars, pin_vars, files, pc, error, walk_vars, cur, minimal_iter, ret,
                   expected_pinned_prod, expected_pinned_dev, environments, warned>>

\* The pin file does not exist: requirements = set().
CompareAbsent ==
    /\ pc = "compare"
    /\ env_idx <= Len(environments)
    /\ ~exists[environments[env_idx].pin]
    /\ CompareWith(environments[env_idx], {})
    /\ UNCHANGED <<env_vars, unit_vars, pin_vars, files, walk_vars, cur, minimal_iter, ret,
                   expected_pinned_prod, expected_pinned_dev, environments, warned>>

\* The loop over the environments ends: the test passes.
TopPass ==
    /\ pc = "compare"
    /\ env_idx > Len(environments)
    /\ pc' = "passed"
    /\ UNCHANGED <<env_vars, unit_vars, pin_vars, files, error, walk_vars, top_vars>>

----------------------------------------------------------------------------
(* The pytest session: the two autouse session fixtures, then              *)
(* test_requirements_pinned with find_unpinned_requirements.               *)

\* Python's None where a version is asked for.
NoVersion == "None"

\* to_version (lines 85-94): the pinned version, None unless the requirement
\* has exactly one spec and its operator is ==.
to_version(r) ==
    IF Len(r.specs) # 1 THEN NoVersion
    ELSE IF r.specs[1][1] # "==" THEN NoVersion
    ELSE r.specs[1][2]

\* The keys of the entries.
EntryKeys(requirements) ==
    { requirements[i][1].key : i \in 1..Len(requirements) }

\* The last entry with key k.
LastEntry(requirements, k) ==
    requirements[CHOOSE i \in 1..Len(requirements) :
                    /\ requirements[i][1].key = k
                    /\ \A j \in (i + 1)..Len(requirements) : requirements[j][1].key # k][1]

\* to_pinned_versions (lines 101-104): a dict built in order, so the last
\* entry of a key decides.
to_pinned_versions(requirements) ==
    [k \in EntryKeys(requirements) |-> to_version(LastEntry(requirements, k))]

\* A reading of lines 175-179 that keeps requirements-dev.txt among the
\* checked files whatever exists.
CheckedFilesAlways == {ProdPins, DevPins}

\* Line 18 and lines 175-179: the files checked, requirements-dev.txt only
\* beside a dev-minimal manifest.
CheckedFiles == IF exists[DevMinimal] THEN {ProdPins, DevPins} ELSE {ProdPins}

\* The orders a frozenset of the given files may be iterated in.
Orders(E) ==
    IF E = {ProdPins, DevPins}
    THEN { <<ProdPins, DevPins>>, <<DevPins, ProdPins>> }
    ELSE { <<f>> : f \in E }

\* Bound: the number of lines of a pin file the session reads.
MaxSessionPins == 1

\* The lines the session's pin files are drawn from:
\* a==1.0, a, a==2.0, b[x]==1.0, c==1.0-rc1, m==1.0, m.
SessionLines ==
    << Line("a", <<>>, << <<"==", "1.0">> >>),
       Line("a", <<>>, <<>>),
       Line("a", <<>>, << <<"==", "2.0">> >>),
       Line("b", <<"x">>, << <<"==", "1.0">> >>),
       Line("c", <<>>, << <<"==", "1.0-rc1">> >>),
       Line(MissingKey, <<>>, << <<"==", "1.0">> >>),
       Line(MissingKey, <<>>, <<>>) >>

SessionContents == Contents(SessionLines, MaxSessionPins)

RECURSIVE ChainRaw(_, _)
\* Lines 186-192: the entries of the files, chained in the order given.
ChainRaw(order, contents) ==
    IF order = <<>> THEN <<>>
    ELSE get_raw_requirements(contents[Head(order)], Head(order))
            \o ChainRaw(Tail(order), contents)

\* Lines 154-163: check-requirements is for applications only.
OnlyForApplications ==
    /\ pc = "session"
    /\ "applications" \notin fixtures
    /\ IF ~exists[ProdPins]
       THEN /\ error' = [kind |-> "OnlyForApplications"]
            /\ pc' = "failed"
            /\ UNCHANGED fixtures
       ELSE /\ fixtures' = fixtures \cup {"applications"}
            /\ UNCHANGED <<pc, error>>
    /\ UNCHANGED <<env_vars, unit_vars, files, walk_vars, top_vars, raw_requirements,
                   incorrect, pinned_versions, unpinned, entry_idx>>

\* Lines 172-200: the integrity fixture reads the checked files that exist
\* and fails when they hold no requirement.
IntegrityBegin ==
    /\ pc = "session"
    /\ "integrity" \notin fixtures
    /\ LET E == { f \in CheckedFiles : exists[f] }
       IN  IF E = {}
           THEN /\ error' = [kind |-> "NoRequirements"]
                /\ pc' = "failed"
                /\ UNCHANGED <<files, raw_requirements, incorrect, entry_idx>>
           ELSE \E order \in Orders(E) : \E contents \in [E -> SessionContents] :
                  /\ files' = [f \in FileNames |->
                                 IF f \in E THEN ReadAs(contents[f]) ELSE files[f]]
                  /\ raw_requirements' = ChainRaw(order, contents)
                  /\ IF ChainRaw(order, contents) = <<>>
                     THEN /\ error' = [kind |-> "NoRequirements"]
                          /\ pc' = "failed"
                     ELSE /\ pc' = "integrity_loop"
                          /\ UNCHANGED error
                  /\ incorrect' = <<>>
                  /\ entry_idx' = 1
    /\ UNCHANGED <<env_vars, unit_vars, walk_vars, top_vars, fixtures, pinned_versions, unpinned>>

\* Lines 203-218: one entry of the integrity loop.
IntegrityStep ==
    /\ pc = "integrity_loop"
    /\ entry_idx <= Len(raw_requirements)
    /\ LET r == raw_requirements[entry_idx][1]
           filename == raw_requirements[entry_idx][2]
           version == to_version(r)
       IN  IF version = NoVersion
           THEN /\ entry_idx' = entry_idx + 1
                /\ UNCHANGED <<pc, error, incorrect>>
           ELSE IF r.key \notin DOMAIN installed_things
           THEN /\ error' = [kind |-> "PinNotInstalled", key |-> r.key, file |-> filename]
                /\ pc' = "failed"
                /\ UNCHANGED <<incorrect, entry_idx>>
           ELSE LET installed_version ==
                        to_version(parse_requirement(
                            FormatPin(r.key, installed_things[r.key].version)))
                IN  /\ incorrect' = IF installed_version # version
                                    THEN Append(incorrect,
                                                <<filename, r.key, version, installed_version>>)
                                    ELSE incorrect
                    /\ entry_idx' = entry_idx + 1
                    /\ UNCHANGED <<pc, error>>
    /\ UNCHANGED <<env_vars, unit_vars, files, walk_vars, top_vars, fixtures, raw_requirements,
                   pinned_versions, unpinned>>

\* An integrity check that reports the first mismatch only.
IntegrityEndFirstOnly ==
    /\ pc = "integrity_loop"
    /\ entry_idx > Len(raw_requirements)
    /\ IF incorrect # <<>>
       THEN /\ error' = [kind |-> "IntegrityMismatch", incorrect |-> <<Head(incorrect)>>]
            /\ pc' = "failed"
            /\ UNCHANGED fixtures
       ELSE /\ fixtures' = fixtures \cup {"integrity"}
            /\ pc' = "session"
            /\ UNCHANGED error
    /\ UNCHANGED <<env_vars, unit_vars, files, walk_vars, top_vars, raw_requirements,
                   incorrect, pinned_versions, unpinned, entry_idx>>

\* Lines 219-232: the loop is over; the mismatches are reported together.
IntegrityEnd ==
    /\ pc = "integrity_loop"
    /\ entry_idx > Len(raw_requirements)
    /\ IF incorrect # <<>>
       THEN /\ error' = [kind |-> "IntegrityMismatch", incorrect |-> incorrect]
            /\ pc' = "failed"
            /\ UNCHANGED fixtures
       ELSE /\ fixtures' = fixtures \cup {"integrity"}
            /\ pc' = "session"
            /\ UNCHANGED error
    /\ UNCHANGED <<env_vars, unit_vars, files, walk_vars, top_vars, raw_requirements,
                   incorrect, pinned_versions, unpinned, entry_idx>>

\* The entries whose own key has no pinned version.
UnpinnedListed(requirements, versions) ==
    { <<requirements[i][1].key, requirements[i][1], requirements[i][2]>> :
        i \in { j \in 1..Len(requirements) :
                  versions[requirements[j][1].key] = NoVersion } }

\* Lines 270-276 and 115-122: test_requirements_pinned reads the same files
\* again (the same entries, nothing having changed) and calls
\* find_unpinned_requirements, which builds pinned_versions and lists the
\* unpinned entries.
FindUnpinnedBegin ==
    /\ pc = "session"
    /\ fixtures = {"applications", "integrity"}
    /\ pinned_versions' = to_pinned_versions(raw_requirements)
    /\ unpinned' = UnpinnedListed(raw_requirements, to_pinned_versions(raw_requirements))
    /\ entry_idx' = 1
    /\ pc' = "unpinned_loop"
    /\ UNCHANGED <<env_vars, unit_vars, files, error, walk_vars, top_vars, fixtures,
                   raw_requirements, incorrect>>

\* The immediate dependencies of the base section alone.
BaseRequires(r) == requires(installed_things[r.key], <<>>)

\* Lines 126-128: package_info.requires(requirement.extras).
DeclaredRequires(r) == requires(installed_things[r.key], r.extras)

\* Lines 125-132: one entry of the loop over the declared requirements.
FindUnpinnedStep ==
    /\ pc = "unpinned_loop"
    /\ entry_idx <= Len(raw_requirements)
    /\ LET r == raw_requirements[entry_idx][1]
           filename == raw_requirements[entry_idx][2]
       IN  IF r.key \notin DOMAIN installed_things
           THEN /\ error' = [kind |-> "KeyError", key |-> r.key]
                /\ pc' = "failed"
                /\ UNCHANGED <<unpinned, entry_idx>>
           ELSE /\ unpinned' = unpinned \cup
                       { <<sub_requirement.key, r, filename>> :
                           sub_requirement \in
                               { s \in Range(DeclaredRequires(r)) :
                                   s.key \notin DOMAIN pinned_versions } }
                /\ entry_idx' = entry_idx + 1
                /\ UNCHANGED <<pc, error>>
    /\ UNCHANGED <<env_vars, unit_vars, files, walk_vars, top_vars, fixtures, raw_requirements,
                   incorrect, pinned_versions>>

\* Line 134: find_unpinned_requirements returns its set.
FindUnpinnedReturn ==
    /\ pc = "unpinned_loop"
    /\ entry_idx > Len(raw_requirements)
    /\ pc' = "unpinned_returned"
    /\ UNCHANGED <<env_vars, unit_vars, files, error, walk_vars, top_vars, pin_vars>>

\* Lines 277-282 and 137-151: the test raises if anything is unpinned; the
\* message suggests the installed version of each unpinned package, which
\* is a KeyError for a package that is not installed.
TestPinnedEnd ==
    /\ pc = "unpinned_returned"
    /\ IF unpinned = {}
       THEN /\ pc' = "pinned_passed"
            /\ UNCHANGED error
       ELSE /\ pc' = "failed"
            /\ error' = IF \E t \in unpinned : t[1] \notin DOMAIN installed_things
                        THEN [kind |-> "KeyError",
                              key |-> CHOOSE k \in { t[1] : t \in unpinned } :
                                          k \notin DOMAIN installed_things]
                        ELSE [kind |-> "UnpinnedRequirements", listed |-> unpinned]
    /\ UNCHANGED <<env_vars, unit_vars, files, walk_vars, top_vars, pin_vars>>

----------------------------------------------------------------------------
(* Specifications.                                                         *)

\* The locals of test_top_level_dependencies before it runs.
TopIdle ==
    /\ cur = "prod"
    /\ minimal_iter = <<>>
    /\ ret = {}
    /\ expected_pinned_prod = {}
    /\ expected_pinned_dev = {}
    /\ environments = <<>>
    /\ env_idx = 1
    /\ warned = FALSE

\* Nothing of the session fixtures or test_requirements_pinned has run.
PinIdle ==
    /\ fixtures = {}
    /\ raw_requirements = <<>>
    /\ incorrect = <<>>
    /\ pinned_versions = <<>>
    /\ unpinned = {}
    /\ entry_idx = 1

\* parse_requirement has not been called on a string of its own.
ParseIdle ==
    /\ reqin = None
    /\ parsed = None
    /\ printed = None
    /\ reparsed = None

\* No file is being read on its own.
ReadIdle ==
    /\ reqfile = ProdPins
    /\ requirements_file = <<>>
    /\ stripped_lines = <<>>
    /\ line_idx = 1
    /\ raw_ret = <<>>

\* test_no_duplicate_requirements has not run.
DupIdle ==
    /\ duplicates = <<>>
    /\ dup_idx = 1

\* upgrade_requirements has not been run.
UpgradeIdle ==
    /\ exec_count = 0
    /\ tempdir = FALSE
    /\ tempdir_on_disk = FALSE
    /\ vcs_exists = [f \in {} |-> FALSE]
    /\ reexecs = 0
    /\ upgraded = FALSE

\* test_javascript_package_versions has not run.
JsIdle ==
    /\ js_files = <<>>
    /\ js_packages = <<>>
    /\ js_left = {}

\* No npm tree has been parsed.
NpmIdle ==
    /\ npm_tree = <<>>
    /\ npm_list = <<>>
    /\ npm_stack = <<>>
    /\ npm_chain = <<>>

\* print_req has not been called.
VizIdle ==
    /\ viz_stack = <<>>
    /\ viz_out = <<>>

\* installed() is not being stepped through.
WorkIdle ==
    /\ installed_locals = None
    /\ installed_loops = 0

\* No JavaScript check, no visualizer and no loop of installed() is being run.
MoreIdle == JsIdle /\ NpmIdle /\ VizIdle /\ WorkIdle

\* No single function, other test or tool is being run.
UnitIdle == ParseIdle /\ ReadIdle /\ DupIdle /\ UpgradeIdle

\* The locals of the walker before it is called.
WalkIdle ==
    /\ wpc = "idle"
    /\ requirement = None
    /\ expected_pinned = {}
    /\ requirements_to_parse = <<>>
    /\ already_parsed = {}
    /\ req = None
    /\ sub_iter = <<>>

\* The seeds: an installed project with any tuple of extras it declares that
\* metadata or a manifest may name.
Seeds == { Req(r.key, r.extras, <<>>) : r \in { s \in SubRequirements : s.key \in Keys } }

\* The walker called on its own on a requirement of an installed project
\* (as the tests call it), the metadata holding at most n edges.
WalkCalled(n) ==
    /\ installed_things \in WorkingSets(EdgeSources, SubRequirements, n)
    /\ exists = [f \in FileNames |-> FALSE]
    /\ files = [f \in FileNames |-> Unread]
    /\ \E seed \in Seeds :
          /\ requirement = seed
          /\ requirements_to_parse = <<seed>>
          /\ already_parsed = { <<seed.key, seed.extras>> }
    /\ expected_pinned = {}
    /\ req = None
    /\ sub_iter = <<>>
    /\ wpc = "while"
    /\ pc = "walking"
    /\ error = NoError
    /\ TopIdle
    /\ PinIdle
    /\ MoreIdle
    /\ UnitIdle

InitWalk == WalkCalled(MaxEdges)

NextWalk == WalkPop \/ WalkSub \/ WalkSubEnd \/ WalkReturn

SpecWalk == InitWalk /\ [][NextWalk]_vars

\* Bound: the number of dependency edges where termination is checked.
MaxFairEdges == 2

InitFairWalk == WalkCalled(MaxFairEdges)

\* The walker always takes its next step: it is straight-line Python.
FairSpecWalk == InitFairWalk /\ [][NextWalk]_vars /\ WF_vars(NextWalk)

\* Bound: the number of dependency edges when whole manifests are checked.
MaxTopEdges == 1

\* The sections and requirements of the metadata when whole manifests are
\* checked: the base sections of a and c and b's extra x; b, c>=0.5, m.
TopSources == { <<"a", BaseSection>>, <<"b", "x">>, <<"c", BaseSection>> }
TopTargets == { r \in SubRequirements : r.extras = <<>> /\ r.key # "a" }

\* test_top_level_dependencies run in any directory.
Init ==
    /\ installed_things \in WorkingSets(TopSources, TopTargets, MaxTopEdges)
    /\ exists \in [FileNames -> BOOLEAN]
    /\ files = [f \in FileNames |-> Unread]
    /\ pc = "start"
    /\ error = NoError
    /\ WalkIdle
    /\ TopIdle
    /\ PinIdle
    /\ MoreIdle
    /\ UnitIdle

Next ==
    \/ TopSkip \/ TopBegin \/ ReadMinimalMissing \/ ReadMinimal
    \/ ExpectedStep \/ ExpectedUnion \/ ExpectedReturnProd \/ ExpectedReturnDev
    \/ ComparePinned \/ CompareAbsent \/ TopPass
    \/ WalkPop \/ WalkSub \/ WalkSubEnd \/ WalkReturn

Spec == Init /\ [][Next]_vars

\* Bound: the number of dependency edges in a session.
MaxSessionEdges == 2

\* The sections and requirements of the metadata in a session: the base
\* sections of a and b and b's extra x; a, c>=0.5, m.
SessionSources == { <<"a", BaseSection>>, <<"b", BaseSection>>, <<"b", "x">> }
SessionTargets == { r \in SubRequirements : r.key \in {"a", "c", MissingKey} }

\* A pytest session of an application (requirements-minimal.txt exists) in
\* any state of its other manifests.
InitPinned ==
    /\ installed_things \in WorkingSets(SessionSources, SessionTargets, MaxSessionEdges)
    /\ exists \in { e \in [FileNames -> BOOLEAN] : e[ProdMinimal] }
    /\ files = [f \in FileNames |-> Unread]
    /\ pc = "session"
    /\ error = NoError
    /\ WalkIdle
    /\ TopIdle
    /\ PinIdle
    /\ MoreIdle
    /\ UnitIdle

NextPinned ==
    \/ OnlyForApplications \/ IntegrityBegin \/ IntegrityStep \/ IntegrityEnd
    \/ FindUnpinnedBegin \/ FindUnpinnedStep \/ FindUnpinnedReturn \/ TestPinnedEnd

SpecPinned == InitPinned /\ [][NextPinned]_vars

----------------------------------------------------------------------------
(* Reachability in the installed metadata, with (key, extras) as nodes.    *)

Node(r) == <<r.key, r.extras>>

\* The requirements the metadata of node n names: none when n's project is
\* not installed.
EdgesOf(n) ==
    IF n[1] \in DOMAIN installed_things
    THEN Range(requires(installed_things[n[1]], n[2]))
    ELSE {}

RECURSIVE ReachableFrom(_)
\* The nodes reachable from the nodes of S in zero or more edges.
ReachableFrom(S) ==
    LET T == S \cup { Node(r) : r \in UNION { EdgesOf(n) : n \in S } }
    IN  IF T = S THEN S ELSE ReachableFrom(T)

\* The requirements on the edges reachable from seed: what one or more
\* edges from the seed lead to.
NamedFrom(seed) == UNION { EdgesOf(n) : n \in ReachableFrom({Node(seed)}) }

ClosureKeys(seed) == { r.key : r \in NamedFrom(seed) }

\* Every dependency reachable from seed is installed.
AllMet(seed) == ClosureKeys(seed) \subseteq DOMAIN installed_things

\* 'key==installed_version' of an installed key.
PinOf(k) == FormatPin(k, installed_things[k].version)

----------------------------------------------------------------------------
(* Claims about the closure walker (SpecWalk).                             *)

\* C2 Closure result: the walker returns exactly the pins key==installed
\* version of the packages named by an edge reachable from the seed; every
\* pin carries the installed version, whatever the edge asks for, and the
\* seed's own pin is in the result only when an edge leads back to its key.
C2_ClosureResult ==
    wpc = "returned" =>
        /\ expected_pinned = { PinOf(k) : k \in ClosureKeys(requirement) }
        /\ \A p \in expected_pinned :
              p.specs = << <<"==", installed_things[p.name].version>> >>
        /\ PinOf(requirement.key) \in expected_pinned
              => requirement.key \in ClosureKeys(requirement)

\* C2 witness: a walk returned several pins, among them c's installed
\* version although the edge asks for c>=0.5, and not the seed's own pin.
C2_Witness ==
    /\ wpc = "returned"
    /\ Cardinality(expected_pinned) >= 2
    /\ PinOf("c") \in expected_pinned
    /\ \E r \in NamedFrom(requirement) : r.key = "c" /\ r.specs # <<>>
    /\ PinOf(requirement.key) \notin expected_pinned

\* The metadata reachable from the seed is a cycle A -> B -> A through the
\* seed's key A.
SeedOnTwoCycle(A, B) ==
    /\ A # B
    /\ requirement.key = A
    /\ \A n \in ReachableFrom({Node(requirement)}) :
          /\ n[1] \in {A, B}
          /\ { r.key : r \in EdgesOf(n) } = (IF n[1] = A THEN {B} ELSE {A})

\* C3 Cycle termination: with every reachable dependency installed the walk
\* ends by returning, cycles or not, and on the cycle A -> B -> A from
\* seed A it returns exactly {A==vA, B==vB}.
C3_CycleTermination ==
    /\ (wpc # "idle" /\ AllMet(requirement)) ~> (wpc = "returned")
    /\ [](\A A, B \in Keys :
            (wpc = "returned" /\ SeedOnTwoCycle(A, B))
                => expected_pinned = {PinOf(A), PinOf(B)})

\* C3 witness: the walk from a returned on the cycle a -> b -> a.
C3_Witness ==
    /\ wpc = "returned"
    /\ SeedOnTwoCycle("a", "b")
    /\ expected_pinned = {PinOf("a"), PinOf("b")}

\* C4 Extras identity: when the walk returns, every (key, extras) node
\* reachable from the seed was visited as a node of its own, and every
\* dependency that any of them activates, by an extra or not, is in the result.
C4_ExtrasIdentity ==
    wpc = "returned" =>
        \A n \in ReachableFrom({Node(requirement)}) :
            /\ n \in already_parsed
            /\ \A r \in EdgesOf(n) : PinOf(r.key) \in expected_pinned

\* The keys that b names without any extra.
BareKeysOfB == { r.key : r \in EdgesOf(<<"b", <<>>>>) }

\* C4 witness: a walk from bare b, visited first, came back to b[x] and
\* returned a dependency that only the extra x activates.
C4_Witness ==
    /\ wpc = "returned"
    /\ requirement = Req("b", <<>>, <<>>)
    /\ <<"b", <<"x">>>> \in already_parsed
    /\ \E r \in EdgesOf(<<"b", <<"x">>>>) :
          /\ r.key \notin BareKeysOfB
          /\ r.key # "b"
          /\ PinOf(r.key) \in expected_pinned

\* C8 Unmet dependency: the walk raises at the first edge it examines whose
\* key is not installed, naming that key and the parent with its extras; so
\* an error always names an uninstalled key required by the parent, and no
\* set is returned when an uninstalled key is reachable.
C8_UnmetDependency ==
    /\ [](wpc = "returned" => AllMet(requirement))
    /\ [](wpc = "raised" =>
            /\ pc = "failed"
            /\ error.kind = "UnmetDependency"
            /\ error.missing \notin DOMAIN installed_things
            /\ error.parent = [name |-> req.key, extras |-> req.extras]
            /\ \E r \in EdgesOf(Node(req)) : r.key = error.missing)
    /\ [][(/\ wpc = "for"
           /\ sub_iter # <<>>
           /\ Head(sub_iter).key \notin DOMAIN installed_things)
          => (/\ wpc' = "raised"
              /\ error'.missing = Head(sub_iter).key)]_vars

\* C8 witness: a parent reached with extras required an uninstalled key
\* after pins had been collected; the walk raised.
C8_Witness ==
    /\ wpc = "raised"
    /\ error.kind = "UnmetDependency"
    /\ error.parent.extras # <<>>
    /\ expected_pinned # {}

----------------------------------------------------------------------------
(* What test_top_level_dependencies should find, stated on its inputs: the  *)
(* manifests and the installed metadata.                                    *)

Terminal == pc \in {"passed", "failed"}

\* The requirements a minimal manifest that was read lists.
ManifestRequirements(f) ==
    { Req(KeyOf(l.name), l.extras, l.specs) : l \in Range(files[f].lines) }

\* The keys of the manifest's requirements and of their transitive closures.
ManifestClosure(f) ==
    UNION { {r.key} \cup ClosureKeys(r) : r \in ManifestRequirements(f) }

\* Every requirement of the manifest and everything reachable from it is
\* installed.
ManifestMet(f) ==
    /\ files[f].read
    /\ ManifestClosure(f) \subseteq DOMAIN installed_things

\* Both expected sets can be computed: the manifests that must exist do, and
\* nothing they reach is uninstalled.
ExpectedComputed ==
    /\ exists[ProdMinimal]
    /\ ManifestMet(ProdMinimal)
    /\ exists[DevMinimal] => ManifestMet(DevMinimal)

Envs == IF exists[DevMinimal] THEN {"prod", "dev"} ELSE {"prod"}

\* The requirement 'key==installed_version' of an installed key.
ExactPin(k) ==
    Req(k, <<>>, << <<"==", safe_version(installed_things[k].version)>> >>)

\* The closure of the environment's minimal manifest, as requirements.
WholeWanted(e) == { ExactPin(k) : k \in ManifestClosure(MinimalOf(e)) }

\* The expected set of an environment: the closure of its minimal manifest,
\* for dev without what prod expects.
Wanted(e) ==
    IF e = "prod" THEN WholeWanted("prod")
    ELSE WholeWanted("dev") \ WholeWanted("prod")

\* The same, the prod expected set being at hand.
WantedBeside(e, prod) == IF e = "prod" THEN prod ELSE WholeWanted("dev") \ prod

\* The requirements the lines of a pin file declare.
DeclaredBy(content) ==
    { Req(KeyOf(l.name), l.extras,
          [i \in 1..Len(l.specs) |-> <<l.specs[i][1], safe_version(l.specs[i][2])>>])
      : l \in Range(content.lines) }

\* The content of the environment's pin file is known.
Seen(e) == ~exists[PinsOf(e)] \/ files[PinsOf(e)].read

\* The requirements the environment's pin file declares, once known.
Decl(e) == IF exists[PinsOf(e)] THEN DeclaredBy(files[PinsOf(e)]) ELSE {}

\* The environment's pin file declares exactly its expected set.
Matches(e) == Seen(e) /\ Decl(e) = Wanted(e)

\* The two failures of the comparison.
Surplus(e, listed) ==
    [kind |-> "PinnedButNotRequired", pin |-> PinsOf(e),
     minimal |-> MinimalOf(e), listed |-> listed]
Missing(e, listed) ==
    [kind |-> "RequiredButNotPinned", pin |-> PinsOf(e),
     minimal |-> MinimalOf(e), listed |-> listed]

----------------------------------------------------------------------------
(* Reconciliation: C1, C5, C6, C7, C9.                                      *)

\* A condition of C1 is known to fail: requirements-minimal.txt is absent, a
\* manifest reaches an uninstalled key, or a pin file whose content is known
\* does not declare exactly its expected set (an absent pin file declares
\* nothing).
ExactlyPinnedBroken ==
    \/ ~exists[ProdMinimal]
    \/ files[ProdMinimal].read /\ ~ManifestMet(ProdMinimal)
    \/ exists[DevMinimal] /\ files[DevMinimal].read /\ ~ManifestMet(DevMinimal)
    \/ /\ ExpectedComputed
       /\ LET prod == Wanted("prod")
          IN  \E e \in Envs : Seen(e) /\ Decl(e) # WantedBeside(e, prod)

\* C1 (reconciliation completeness): when every reachable dependency is
\* installed, requirements.txt declares exactly key==installed_version for
\* every requirement of requirements-minimal.txt and every member of its
\* transitive closure, and (a dev-minimal manifest existing)
\* requirements-dev.txt declares exactly the dev closure minus the prod
\* expected set, test_top_level_dependencies raises no error: it fails only
\* when one of these conditions is broken, and a run that passes carries no
\* error.
C1_ReconciliationCompleteness ==
    /\ pc = "failed" => ExactlyPinnedBroken
    /\ pc = "passed" => error = NoError /\ \A e \in Envs : Matches(e)

\* C1 witness: a run passed with a dev-minimal manifest, two or more prod
\* pins, a dev pin of its own and a package in both closures.
C1_Witness ==
    /\ pc = "passed"
    /\ exists[DevMinimal]
    /\ Cardinality(Wanted("prod")) >= 2
    /\ Wanted("dev") # {}
    /\ WholeWanted("dev") \cap WholeWanted("prod") # {}
    /\ Decl("prod") = Wanted("prod")
    /\ Decl("dev") = Wanted("dev")

\* C5 as stated: whenever the comparison of an environment is reached and a
\* package of its expected set (every minimal requirement at its installed
\* version plus its transitive closure) is absent from its pin file, the
\* test fails with the 'are not pinned in' message of that environment
\* listing exactly expected minus declared.
C5_AsStated ==
    (Terminal /\ ExpectedComputed) =>
        \A e \in Envs :
            LET absent == WholeWanted(e) \ Decl(e)
            IN  ((e = "dev" => Matches("prod")) /\ absent # {}) =>
                    /\ pc = "failed"
                    /\ error = Missing(e, absent)

\* C5 (missing detection), amended: the expected set of dev being the dev
\* closure minus the prod expected set: whenever the comparison of an
\* environment is reached (for dev: requirements.txt declares exactly the
\* prod expected set) and its pin file declares nothing outside the expected
\* set and lacks a package of it, the test fails with the 'are not
\* pinned in' message naming that pin file and its minimal file and listing
\* exactly expected minus declared, each as key==installed_version; a pin
\* file that does not exist declares nothing.
C5_MissingDetection ==
    (Terminal /\ ExpectedComputed) =>
        LET prod == Wanted("prod")
        IN  \A e \in Envs :
                (e = "dev" => (Seen("prod") /\ Decl("prod") = prod)) =>
                    LET wanted == WantedBeside(e, prod)
                    IN  /\ Seen(e)
                        /\ (Decl(e) \subseteq wanted /\ Decl(e) # wanted) =>
                              /\ pc = "failed"
                              /\ error = Missing(e, wanted \ Decl(e))
                              /\ \A r \in error.listed : r = ExactPin(r.key)

\* C5 witness: requirements-dev.txt does not exist, dev expects a pin, and the
\* test failed listing the dev pins as missing.
C5_Witness ==
    /\ pc = "failed"
    /\ error.kind = "RequiredButNotPinned"
    /\ error.pin = DevPins
    /\ ~exists[DevPins]
    /\ error.listed = Wanted("dev")

SharedKeys == ManifestClosure(ProdMinimal) \cap ManifestClosure(DevMinimal)

\* C7 (dev/prod overlap): when the comparison begins the dev environment
\* holds the dev closure minus the prod expected set, disjoint from the prod
\* expected set; so when the dev pin file is compared
\* (requirements.txt declares exactly the prod expected set) a package both
\* manifests require that requirements-dev.txt also pins at its installed
\* version is reported as a surplus of requirements-dev.txt, and no package
\* both require is ever reported as missing from requirements-dev.txt.
C7_DevProdOverlap ==
    /\ (Len(environments) = 2 /\ pc = "compare" /\ env_idx = 1) =>
          /\ environments[2].pin = DevPins
          /\ ParsedExpected(environments[2].expected) = Wanted("dev")
          /\ ParsedExpected(environments[2].expected)
                \cap ParsedExpected(environments[1].expected) = {}
    /\ (Terminal /\ exists[DevMinimal] /\ ExpectedComputed /\ Matches("prod")) =>
          /\ Seen("dev")
          /\ \A k \in SharedKeys :
                /\ ExactPin(k) \in Decl("dev") =>
                      /\ pc = "failed"
                      /\ error.kind = "PinnedButNotRequired"
                      /\ error.pin = DevPins
                      /\ ExactPin(k) \in error.listed
                /\ ~(/\ error.kind = "RequiredButNotPinned"
                     /\ error.pin = DevPins
                     /\ ExactPin(k) \in error.listed)

\* C7 witness: both minimal manifests require a key, both pin files pin it at the
\* installed version, requirements.txt matches, and the test failed listing
\* it as a surplus of requirements-dev.txt.
C7_Witness ==
    /\ pc = "failed"
    /\ error.kind = "PinnedButNotRequired"
    /\ error.pin = DevPins
    /\ Matches("prod")
    /\ \E k \in SharedKeys :
          /\ k \in { r.key : r \in ManifestRequirements(ProdMinimal) }
          /\ k \in { r.key : r \in ManifestRequirements(DevMinimal) }
          /\ ExactPin(k) \in Decl("prod")
          /\ ExactPin(k) \in error.listed

\* C9 (minimal requirement not installed): when _expected_pinned comes to a
\* requirement of a minimal manifest whose key is not installed it fails
\* at once with an error naming the minimal file and the key, without
\* starting the closure walk of that requirement; and a run that failed so
\* has compared no pin file.
C9_MinimalNotInstalled ==
    /\ [][(/\ pc = "expected_loop"
           /\ minimal_iter # <<>>
           /\ Head(minimal_iter)[1].key \notin DOMAIN installed_things)
          => (/\ pc' = "failed"
              /\ error' = [kind |-> "NotInstalled",
                           file |-> MinimalOf(cur),
                           pin_file |-> PinsOf(cur),
                           missing |-> Head(minimal_iter)[1].key]
              /\ UNCHANGED walk_vars
              /\ UNCHANGED <<ret, env_idx, files>>)]_vars
    /\ [](error.kind = "NotInstalled" =>
            /\ pc = "failed"
            /\ wpc = "idle"
            /\ error.file \in {ProdMinimal, DevMinimal}
            /\ error.missing \notin DOMAIN installed_things
            /\ \E r \in ManifestRequirements(error.file) : r.key = error.missing
            /\ env_idx = 1
            /\ ~files[ProdPins].read /\ ~files[DevPins].read)

\* C9 witness: requirements-dev-minimal.txt lists an uninstalled key after an
\* installed one; the prod expected set had been computed, the dev one had
\* begun, and the run failed naming the dev manifest.
C9_Witness ==
    /\ pc = "failed"
    /\ error.kind = "NotInstalled"
    /\ error.file = DevMinimal
    /\ error.missing = MissingKey
    /\ expected_pinned_prod # {}
    /\ ret # {}

----------------------------------------------------------------------------
(* The unpinned detector: C10.                                             *)

\* find_unpinned_requirements has returned its set.
FindUnpinnedReturned == pc = "unpinned_returned"

Entries == Range(raw_requirements)

\* A requirement with exactly one constraint, whose operator is ==.
Pinned(r) == Len(r.specs) = 1 /\ r.specs[1][1] = "=="

\* The keys of the declared entries of the checked manifests.
DeclaredKeys == { e[1].key : e \in Entries }

\* The triples of the immediate dependencies, under the declared extras, of
\* the declared requirements, whose key no entry declares.
OneLevelUnpinned ==
    UNION { { <<sub.key, e[1], e[2]>> :
                sub \in { r \in EdgesOf(Node(e[1])) : r.key \notin DeclaredKeys } } :
            e \in Entries }

\* C10 (unpinned one-level detection): in a session whose fixtures have
\* passed, when all the declared (requirement, filename) entries are pinned,
\* find_unpinned_requirements returns exactly the triples (sub.key,
\* requirement, filename) with sub an immediate dependency of the declared
\* requirement, requires being called with the declared extras, and sub.key
\* the key of no declared entry of any checked manifest; nothing reached
\* only through a dependency's own dependencies is returned.
C10_UnpinnedOneLevel ==
    (FindUnpinnedReturned /\ \A e \in Entries : Pinned(e[1])) =>
        /\ unpinned = OneLevelUnpinned
        /\ \A t \in unpinned :
              /\ <<t[2], t[3]>> \in Entries
              /\ t[1] \in { r.key : r \in EdgesOf(Node(t[2])) }

\* C10 witness: two pinned entries from two files; a dependency named only
\* under the declared extra is returned, and a key reached only through
\* that dependency is neither declared nor returned.
C10_Witness ==
    /\ FindUnpinnedReturned
    /\ \A e \in Entries : Pinned(e[1])
    /\ { e[2] : e \in Entries } = {ProdPins, DevPins}
    /\ \E t \in unpinned :
          /\ t[2].extras # <<>>
          /\ t[1] \notin { r.key : r \in EdgesOf(<<t[2].key, <<>>>>) }
          /\ \E k \in ClosureKeys(t[2]) :
                /\ k \notin DeclaredKeys
                /\ k \notin { u[1] : u \in unpinned }

----------------------------------------------------------------------------
(* The unpinned detector on the declared entries themselves: C11.          *)

\* The triple find_unpinned_requirements lists an entry under its own key.
OwnTriple(e) == <<e[1].key, e[1], e[2]>>

\* C11 (unpinned declared requirements), as stated: in the set returned by
\* find_unpinned_requirements every entry whose requirement is not pinned is
\* listed under its own key and no entry whose requirement is pinned is,
\* also when a key occurs in several entries with different constraints.
C11_AsStated ==
    FindUnpinnedReturned =>
        \A e \in Entries :
            /\ ~Pinned(e[1]) => OwnTriple(e) \in unpinned
            /\ Pinned(e[1]) => OwnTriple(e) \notin unpinned

\* C11, what lines 115-122 do: an entry is listed under its own key exactly
\* when the last entry of its key is not pinned; so the statement holds of
\* every key that occurs in one entry only.
C11_LastEntryDecides ==
    FindUnpinnedReturned =>
        \A e \in Entries :
            /\ OwnTriple(e) \in unpinned
                  <=> ~Pinned(LastEntry(raw_requirements, e[1].key))
            /\ (\A o \in Entries : o[1].key = e[1].key => o = e)
                  => (OwnTriple(e) \in unpinned <=> ~Pinned(e[1]))

\* C11 case: the set is returned for two manifests that declare one key,
\* pinned in one and not pinned in the other.
C11_Witness ==
    /\ FindUnpinnedReturned
    /\ \E e \in Entries : \E o \in Entries :
          /\ e[1].key = o[1].key
          /\ e[2] # o[2]
          /\ Pinned(e[1])
          /\ ~Pinned(o[1])

----------------------------------------------------------------------------
(* The dev pin file without a dev-minimal manifest: C12.                   *)

\* Either check of the plugin run in a directory: test_top_level_dependencies
\* on its own, or the session of test_requirements_pinned.
InitChecks == Init \/ InitPinned

NextChecks == Next \/ NextPinned

SpecChecks == InitChecks /\ [][NextChecks]_vars

\* The kinds of failure of the comparison of an environment.
MismatchKinds == {"PinnedButNotRequired", "RequiredButNotPinned"}

\* C12 (dev pin file ignored without a dev-minimal manifest): the contents
\* of a file enter a run only where the file is read, and without
\* requirements-dev-minimal.txt neither test_requirements_pinned (with its
\* fixtures) nor test_top_level_dependencies ever reads requirements-dev.txt:
\* no entry, failure or listed requirement comes from it, so two runs that
\* differ only in its contents end alike; and a reconciliation that gets
\* past the prod expected set has printed the warning and compares the prod
\* environment alone.
C12_DevPinIgnored ==
    ~exists[DevMinimal] =>
        /\ ~files[DevPins].read
        /\ \A i \in 1..Len(raw_requirements) : raw_requirements[i][2] # DevPins
        /\ \A t \in unpinned : t[3] # DevPins
        /\ error.kind = "PinNotInstalled" => error.file # DevPins
        /\ error.kind \in MismatchKinds => error.pin = ProdPins
        /\ (pc \in {"compare", "passed"} \/ error.kind \in MismatchKinds) =>
              /\ warned
              /\ Len(environments) = 1
              /\ environments[1].pin = ProdPins

\* C12 case: requirements-dev.txt exists beside no dev-minimal manifest and
\* test_top_level_dependencies passes, the warning printed.
C12_Witness ==
    /\ ~exists[DevMinimal]
    /\ exists[DevPins]
    /\ pc = "passed"
    /\ warned
    /\ ~files[DevPins].read
    /\ files[ProdPins].read

----------------------------------------------------------------------------
(* parse_requirement on a string, and back through str(): C13.             *)

\* The strings parse_requirement is called on: the names a, A, b, C; no
\* extras, [x], [y,x]; no constraint, ==1.0-rc1, >=0.5,==1.0rc1, ==1.0,<3;
\* any marker; with and without blanks.
ReqStrings ==
    { ReqString(Line(n, e, sp), mk, b) :
        n \in {"a", "A", "b", "C"},
        e \in { <<>>, <<"x">>, <<"y", "x">> },
        sp \in { <<>>,
                 << <<"==", "1.0-rc1">> >>,
                 << <<">=", "0.5">>, <<"==", "1.0rc1">> >>,
                 << <<"==", "1.0">>, <<"<", "3">> >> },
        mk \in {"none", "true", "false"},
        b \in BOOLEAN }

\* sorted() on extras, and on the strings of the constraints ('<' < '=' < '>').
ExtrasOrder == <<"x", "y">>
SpecsOrder ==
    << <<"<", "3">>, <<"==", "1.0">>, <<"==", "1.0-rc1">>, <<"==", "1.0rc1">>,
       <<"==", "2.0">>, <<">=", "0.5">> >>

\* The members of S in the order of `order`.
SortedBy(order, S) == SelectSeq(order, LAMBDA x : x \in S)

\* A str() that leaves the extras out.
RequirementStrBare(name, r) ==
    Line(name, <<>>, SortedBy(SpecsOrder, Range(r.specs)))

\* str(Requirement): the name, the extras sorted, the constraints sorted;
\* a requirement built by parse_requirement has no marker and no url.
RequirementStr(name, r) ==
    Line(name, SortedBy(ExtrasOrder, Range(r.extras)),
         SortedBy(SpecsOrder, Range(r.specs)))

\* Lines 21-36: parse_requirement(reqin).
ParseCall ==
    /\ pc = "parse_call"
    /\ parsed' = parse_requirement(reqin)
    /\ pc' = "parse_str"
    /\ UNCHANGED <<more_vars, env_vars, files, error, walk_vars, top_vars, pin_vars, upgrade_vars, read_vars, dup_vars,
                   reqin, printed, reparsed>>

\* str() of the requirement, which keeps the project name it was built from
\* (line 32).
ParseStr ==
    /\ pc = "parse_str"
    /\ printed' = RequirementStr(reqin.name, parsed)
    /\ pc' = "parse_again"
    /\ UNCHANGED <<more_vars, env_vars, files, error, walk_vars, top_vars, pin_vars, upgrade_vars, read_vars, dup_vars,
                   reqin, parsed, reparsed>>

\* Lines 21-36: parse_requirement of the string printed.
ParseAgain ==
    /\ pc = "parse_again"
    /\ reparsed' = parse_requirement(printed)
    /\ pc' = "parse_done"
    /\ UNCHANGED <<more_vars, env_vars, files, error, walk_vars, top_vars, pin_vars, upgrade_vars, read_vars, dup_vars,
                   reqin, parsed, printed>>

\* parse_requirement called on any of the strings.
InitParse ==
    /\ installed_things \in WorkingSets({}, {}, 0)
    /\ exists = [f \in FileNames |-> FALSE]
    /\ files = [f \in FileNames |-> Unread]
    /\ pc = "parse_call"
    /\ error = NoError
    /\ WalkIdle
    /\ TopIdle
    /\ PinIdle
    /\ MoreIdle
    /\ ReadIdle
    /\ DupIdle
    /\ UpgradeIdle
    /\ reqin \in ReqStrings
    /\ parsed = None
    /\ printed = None
    /\ reparsed = None

NextParse == ParseCall \/ ParseStr \/ ParseAgain

SpecParse == InitParse /\ [][NextParse]_vars

----------------------------------------------------------------------------
(* Reconciliation compares normalized requirements: C14.                   *)

\* The two spellings of one pre-release version.
PreReleaseSpellings == {"1.0-rc1", "1.0rc1"}

\* Line l of a pin file says what the expected string s = 'key==version'
\* says, up to the case of the name, blanks, and the spelling of a
\* pre-release version.
SameButSpelling(l, s) ==
    /\ l.name \in {"a", "A", "b", "B", "c", "C"}
    /\ KeyOf(l.name) = s.name
    /\ l.extras = <<>>
    /\ Len(l.specs) = 1
    /\ l.specs[1][1] = "=="
    /\ \/ l.specs[1][2] = s.specs[1][2]
       \/ {l.specs[1][2], s.specs[1][2]} \subseteq PreReleaseSpellings

\* The requirements a failure of the comparison of pin file f lists.
ListedFor(f) ==
    IF error.kind \in MismatchKinds /\ error.pin = f THEN error.listed ELSE {}

\* C14 (normalized comparison): once a pin file has been compared, a line
\* of it that differs from an expected 'key==installed_version' only in the
\* case of the key, in blanks, or in the spelling of a pre-release version
\* is not listed as surplus, and that expected pin is not listed as missing.
C14_NormalizedComparison ==
    pc \in {"compare", "passed", "failed"} =>
        \A i \in 1..Len(environments) :
            LET env == environments[i]
            IN  files[env.pin].read =>
                  \A l \in Range(files[env.pin].lines) : \A s \in env.expected :
                      SameButSpelling(l, s) =>
                          \A r \in ListedFor(env.pin) :
                              /\ HashCmp(r) # HashCmp(parse_requirement(l))
                              /\ HashCmp(r) # HashCmp(parse_requirement(s))

\* C14 case: c is installed at 1.0-rc1 and requirements.txt pins it as
\* 'C == 1.0rc1', which differs from the expected 'c==1.0-rc1' in case,
\* blanks and spelling; the comparison of requirements.txt finds nothing.
C14_Witness ==
    /\ pc = "passed"
    /\ files[ProdPins].read
    /\ \E l \in Range(files[ProdPins].lines) : \E s \in expected_pinned_prod :
          /\ SameButSpelling(l, s)
          /\ l.name # s.name
          /\ l.specs # s.specs
          /\ "spaced" \in DOMAIN l
          /\ l.spaced
    /\ \A l \in Range(files[ProdPins].lines) : l.name = "C"

----------------------------------------------------------------------------
(* get_lines_from_file and get_raw_requirements on a file of any lines.    *)

\* Texts that are no requirement: nothing, a comment '# ...', '-e .',
\* another editable '-e git+...', a url 'git+https://...', and 'a=='.
Blank == [kind |-> "blank"]
Comment == [kind |-> "comment"]
EditableSelf == [kind |-> "editable", target |-> "."]
EditableOther == [kind |-> "editable", target |-> "git+"]
Url == [kind |-> "url"]
Malformed == [kind |-> "malformed"]

\* The texts a line of a file is drawn from; the requirements among them
\* are a==1.0, 'A == 1.0-rc1' and b[x] with a marker that is true here,
\* and c==1.0 with a marker that is false here.
ReadTexts ==
    { Blank, Comment, EditableSelf, EditableOther, Url, Malformed,
      ReqString(Line("a", <<>>, << <<"==", "1.0">> >>), "none", FALSE),
      ReqString(Line("A", <<>>, << <<"==", "1.0-rc1">> >>), "true", TRUE),
      ReqString(Line("b", <<"x">>, <<>>), "true", FALSE),
      ReqString(Line("c", <<>>, << <<"==", "1.0">> >>), "false", FALSE) }

\* A line as it stands in the file: its text, after blanks or not.
RawLines == [indent : BOOLEAN, text : ReadTexts]

\* Bound: the number of lines of a file read on its own.
MaxReadLines == 2

\* line.strip()
strip(line) == line.text

\* line.startswith('#'), asked of the line as it stands in the file.
StartsWithHash(line) == ~line.indent /\ line.text = Comment

\* get_lines_from_file (lines 39-44): the stripped text of the lines whose
\* strip() is not empty and that do not themselves start with '#'.
get_lines_from_file(content) ==
    LET kept == SelectSeq(content,
                          LAMBDA line : strip(line) # Blank /\ ~StartsWithHash(line))
    IN  [i \in 1..Len(kept) |-> strip(kept[i])]

\* Requirement.parse(line) does not raise ValueError.
Parses(text) == "name" \in DOMAIN text

\* A reading of lines 66-70 that skips nothing.
MarkerNeverSkips(text) == FALSE

\* Lines 66-70: the requirement has a marker and it evaluates false.
MarkerSkips(text) == text.marker = "false"

\* Lines 39-44 and 56: the file is opened and its lines are filtered.
ReadLines ==
    /\ pc = "read_open"
    /\ stripped_lines' = get_lines_from_file(requirements_file)
    /\ raw_ret' = <<>>
    /\ line_idx' = 1
    /\ pc' = "read_loop"
    /\ UNCHANGED <<more_vars, env_vars, files, error, walk_vars, top_vars, pin_vars, upgrade_vars, parse_vars, dup_vars,
                   reqfile, requirements_file>>

\* Lines 57-81: one line of the loop of get_raw_requirements.
RawStep ==
    /\ pc = "read_loop"
    /\ line_idx <= Len(stripped_lines)
    /\ LET line == stripped_lines[line_idx]
       IN  IF line = EditableSelf
           THEN /\ line_idx' = line_idx + 1
                /\ UNCHANGED <<pc, error, raw_ret>>
           ELSE IF ~Parses(line)
           THEN /\ error' = [kind |-> "ParseError", line |-> line]
                /\ pc' = "failed"
                /\ UNCHANGED <<line_idx, raw_ret>>
           ELSE IF MarkerSkips(line)
           THEN /\ line_idx' = line_idx + 1
                /\ UNCHANGED <<pc, error, raw_ret>>
           ELSE /\ raw_ret' = Append(raw_ret, <<parse_requirement(line), reqfile>>)
                /\ line_idx' = line_idx + 1
                /\ UNCHANGED <<pc, error>>
    /\ UNCHANGED <<more_vars, env_vars, files, walk_vars, top_vars, pin_vars, upgrade_vars, parse_vars, dup_vars,
                   reqfile, requirements_file, stripped_lines>>

\* Line 82: the list is returned.
RawReturn ==
    /\ pc = "read_loop"
    /\ line_idx > Len(stripped_lines)
    /\ pc' = "read_returned"
    /\ UNCHANGED <<more_vars, env_vars, files, error, walk_vars, top_vars, pin_vars, upgrade_vars, parse_vars, dup_vars,
                   read_vars>>

\* get_raw_requirements called on a file of at most MaxReadLines lines.
InitRead ==
    /\ installed_things \in WorkingSets({}, {}, 0)
    /\ exists = [f \in FileNames |-> FALSE]
    /\ files = [f \in FileNames |-> Unread]
    /\ pc = "read_open"
    /\ error = NoError
    /\ WalkIdle
    /\ TopIdle
    /\ PinIdle
    /\ MoreIdle
    /\ ParseIdle
    /\ DupIdle
    /\ UpgradeIdle
    /\ reqfile \in FileNames
    /\ requirements_file \in UNION { [1..n -> RawLines] : n \in 0..MaxReadLines }
    /\ stripped_lines = <<>>
    /\ line_idx = 1
    /\ raw_ret = <<>>

NextRead == ReadLines \/ RawStep \/ RawReturn

SpecRead == InitRead /\ [][NextRead]_vars

----------------------------------------------------------------------------
(* Marker filtering: C15.                                                  *)

\* The lines of the file that get_raw_requirements turns into entries when
\* it returns: all but '-e .' and the lines whose marker is false here.
LiveLines ==
    SelectSeq(stripped_lines, LAMBDA t : t # EditableSelf /\ t.marker # "false")

\* C15 (marker filtering): when get_raw_requirements returns, its list holds,
\* in file order, the requirement of every line other than '-e .' whose
\* marker is absent or true here, parsed without its marker, and nothing
\* else: a line whose marker is false here gives no entry, so no later check
\* sees it.
C15_MarkerFiltering ==
    pc = "read_returned" =>
        /\ raw_ret = [i \in 1..Len(LiveLines) |->
                        <<parse_requirement(LiveLines[i]), reqfile>>]
        /\ \A i \in 1..Len(raw_ret) : "marker" \notin DOMAIN raw_ret[i][1]
        /\ \A t \in Range(stripped_lines) :
              (t # EditableSelf /\ t.marker = "false"
                 /\ \A u \in Range(LiveLines) : KeyOf(u.name) # KeyOf(t.name))
              => \A i \in 1..Len(raw_ret) : raw_ret[i][1].key # KeyOf(t.name)

\* C15 case: a file with a line whose marker is false here and a line whose
\* marker is true here has been read; only the second gave an entry.
C15_Witness ==
    /\ pc = "read_returned"
    /\ Len(stripped_lines) = 2
    /\ \A t \in Range(stripped_lines) : Parses(t)
    /\ stripped_lines[1].marker = "false"
    /\ stripped_lines[2].marker = "true"
    /\ Len(raw_ret) = 1
    /\ raw_ret[1][1].key = KeyOf(stripped_lines[2].name)

----------------------------------------------------------------------------
(* Manifest line filtering: C16.                                           *)

\* get_lines_from_file has returned.
LinesReturned == pc \in {"read_loop", "read_returned"} \/ error.kind = "ParseError"

\* C16 (manifest line filtering), as stated: get_lines_from_file returns, in
\* file order, the stripped text of exactly the lines that, once stripped,
\* are not empty and do not start with '#'.
C16_AsStated ==
    LinesReturned =>
        LET kept == SelectSeq(requirements_file,
                        LAMBDA line : strip(line) # Blank /\ strip(line) # Comment)
        IN  stripped_lines = [i \in 1..Len(kept) |-> strip(kept[i])]

\* C16, what line 43 does: the test for '#' is made on the line as it stands
\* in the file, so a comment that follows blanks is returned, stripped, like
\* any other text; the statement holds of the files without such a line.
C16_HashBeforeStrip ==
    LinesReturned =>
        LET kept == SelectSeq(requirements_file,
                        LAMBDA line : /\ strip(line) # Blank
                                      /\ (strip(line) = Comment => line.indent))
        IN  /\ stripped_lines = [i \in 1..Len(kept) |-> strip(kept[i])]
            /\ (\A i \in 1..Len(requirements_file) :
                    ~(requirements_file[i].indent
                        /\ requirements_file[i].text = Comment))
                  => \A t \in Range(stripped_lines) : t # Comment

\* C16 case: a file with a comment after blanks has been filtered, and the
\* comment is among the lines returned.
C16_Witness ==
    /\ LinesReturned
    /\ \E i \in 1..Len(requirements_file) :
          /\ requirements_file[i].indent
          /\ requirements_file[i].text = Comment
    /\ Comment \in Range(stripped_lines)

----------------------------------------------------------------------------
(* Parse errors: C17.                                                      *)

\* The first of the filtered lines that is not '-e .' and does not parse,
\* None when there is none.
FirstUnparsed ==
    LET bad == SelectSeq(stripped_lines, LAMBDA t : t # EditableSelf /\ ~Parses(t))
    IN  IF bad = <<>> THEN None ELSE Head(bad)

\* What holds of a read for C17, the report apart: the list is returned
\* only when every line but '-e .' parses; otherwise the read fails on the
\* first line that does not, naming that line, and returns nothing.
FailsFast ==
    /\ pc = "read_returned" => FirstUnparsed = None /\ error = NoError
    /\ (pc = "read_loop" /\ line_idx > Len(stripped_lines)) => FirstUnparsed = None
    /\ error.kind = "ParseError" =>
          /\ pc = "failed"
          /\ error.line = FirstUnparsed
          /\ stripped_lines[line_idx] = FirstUnparsed

\* C17 (parse errors fail fast), as stated: only '-e .' is passed over among
\* the lines that do not parse; any other aborts the read, nothing being
\* returned, with an error that reports the offending line and the filename.
C17_AsStated ==
    /\ FailsFast
    /\ error.kind = "ParseError" =>
          /\ "file" \in DOMAIN error
          /\ error.file = reqfile

\* C17, what lines 74-81 do: the read fails fast as stated, but the error
\* carries the offending line (and the inner exception) and no filename.
C17_FailFastLineOnly ==
    /\ FailsFast
    /\ error.kind = "ParseError" => DOMAIN error = {"kind", "line"}

\* C17 case: the read of a file whose first line gave an entry fails on its
\* second line, a url.
C17_Witness ==
    /\ pc = "failed"
    /\ error.kind = "ParseError"
    /\ error.line = Url
    /\ Len(raw_ret) = 1

----------------------------------------------------------------------------
(* test_no_duplicate_requirements: C18.                                    *)

\* Lines 243-248: the manifests, in the order they are scanned.
DupOrder == <<ProdMinimal, ProdPins, DevMinimal, DevPins>>

\* Bound: the number of lines of a manifest scanned for duplicates.
MaxDupLines == 3

\* The lines the scanned manifests are drawn from: a==1.0, a==2.0, A, b==1.0.
DupLines ==
    << Line("a", <<>>, << <<"==", "1.0">> >>),
       Line("a", <<>>, << <<"==", "2.0">> >>),
       Line("A", <<>>, <<>>),
       Line("b", <<>>, << <<"==", "1.0">> >>) >>

RECURSIVE FindDuplicatesOnce(_, _)
\* A scan that forgets a key once it has reported it.
FindDuplicatesOnce(entries, found) ==
    IF entries = <<>> THEN <<>>
    ELSE LET k == Head(entries)[1].key
         IN  IF k \in found
             THEN <<<<k, Head(entries)[2]>>>>
                    \o FindDuplicatesOnce(Tail(entries), found \ {k})
             ELSE FindDuplicatesOnce(Tail(entries), found \cup {k})

RECURSIVE FindDuplicates(_, _)
\* Lines 251-256: the loop over the entries of one file; a key already in
\* `found` is appended with the file's name, any other is added to `found`.
FindDuplicates(entries, found) ==
    IF entries = <<>> THEN <<>>
    ELSE LET k == Head(entries)[1].key
         IN  IF k \in found
             THEN <<<<k, Head(entries)[2]>>>> \o FindDuplicates(Tail(entries), found)
             ELSE FindDuplicates(Tail(entries), found \cup {k})

\* Lines 243-256: one manifest of the loop; a manifest that does not exist
\* is passed over, any other is read and scanned with a fresh `found`.
DupFile ==
    /\ pc = "dup_loop"
    /\ dup_idx <= Len(DupOrder)
    /\ LET filename == DupOrder[dup_idx]
       IN  IF ~exists[filename]
           THEN UNCHANGED <<files, duplicates>>
           ELSE \E content \in Contents(DupLines, MaxDupLines) :
                  /\ files' = [files EXCEPT ![filename] = ReadAs(content)]
                  /\ duplicates' = duplicates \o
                        FindDuplicates(get_raw_requirements(content, filename), {})
    /\ dup_idx' = dup_idx + 1
    /\ UNCHANGED <<more_vars, env_vars, pc, error, walk_vars, top_vars, pin_vars, upgrade_vars, parse_vars,
                   read_vars>>

\* Lines 258-267: the duplicates of all the manifests are raised together.
DupEnd ==
    /\ pc = "dup_loop"
    /\ dup_idx > Len(DupOrder)
    /\ IF duplicates # <<>>
       THEN /\ error' = [kind |-> "Duplicates", duplicates |-> duplicates]
            /\ pc' = "failed"
       ELSE /\ pc' = "dup_passed"
            /\ UNCHANGED error
    /\ UNCHANGED <<more_vars, env_vars, files, walk_vars, top_vars, pin_vars, upgrade_vars, parse_vars,
                   read_vars, dup_vars>>

\* test_no_duplicate_requirements run in any directory.
InitDup ==
    /\ installed_things \in WorkingSets({}, {}, 0)
    /\ exists \in [FileNames -> BOOLEAN]
    /\ files = [f \in FileNames |-> Unread]
    /\ pc = "dup_loop"
    /\ error = NoError
    /\ WalkIdle
    /\ TopIdle
    /\ PinIdle
    /\ MoreIdle
    /\ UnitIdle

NextDup == DupFile \/ DupEnd

SpecDup == InitDup /\ [][NextDup]_vars

\* The positions of the lines of manifest f whose key an earlier line of f
\* has.
Repeated(f) ==
    { j \in 1..Len(files[f].lines) :
        \E i \in 1..(j - 1) :
            KeyOf(files[f].lines[i].name) = KeyOf(files[f].lines[j].name) }

\* C18 (duplicate detection): once test_no_duplicate_requirements is over,
\* it has failed exactly when some manifest that exists holds two entries of
\* one key, the same key in two manifests not counting; and the failure
\* lists, with the name of its file, every occurrence of a key after the
\* first in that file, as many times as it occurs.
C18_DuplicateDetection ==
    (pc \in {"dup_passed", "failed"}) =>
        /\ pc = "failed" <=> \E f \in FileNames : Repeated(f) # {}
        /\ pc = "failed" =>
              /\ error.kind = "Duplicates"
              /\ \A f \in FileNames : \A k \in Keys :
                    Cardinality({ n \in 1..Len(error.duplicates) :
                                    error.duplicates[n] = <<k, f>> })
                      = Cardinality({ j \in Repeated(f) :
                                        KeyOf(files[f].lines[j].name) = k })
              /\ \A n \in 1..Len(error.duplicates) :
                    error.duplicates[n][1] \in Keys

\* C18 case: a key is pinned once in each of two manifests, which is no
\* duplicate, and three times in a third, which is reported twice.
C18_Witness ==
    /\ pc = "failed"
    /\ \E f \in FileNames : \E g \in FileNames \ {f} :
          /\ Repeated(f) = {} /\ Repeated(g) = {}
          /\ files[f].lines # <<>> /\ files[g].lines # <<>>
          /\ KeyOf(files[f].lines[1].name) = KeyOf(files[g].lines[1].name)
    /\ \E f \in FileNames : Cardinality(Repeated(f)) = 2
    /\ Len(error.duplicates) = 2

----------------------------------------------------------------------------
(* requirements_tools/upgrade_requirements.py: main, re-executed until     *)
(* nothing is unmet, then test_top_level_dependencies of the checker on    *)
(* the files it wrote.  The manifests hold no vcs and no marker lines.     *)

\* Line 22.  (requirements-vcs.txt, line 20, holds no line when it exists,
\* and then nothing of the run depends on it.)
DevVcs == "requirements-dev-vcs.txt"

\* Line 159: the default of --exec-limit.
ExecLimit == 10

\* A reading of line 197 that lets one more re-exec through.
OverLimitLate(new_exec_count) == new_exec_count > ExecLimit + 1

\* Line 197: new_exec_count > args.exec_limit.
OverLimit(new_exec_count) == new_exec_count > ExecLimit

\* Bound: the number of lines of a minimal manifest the tool reads.
MaxUpLines == 1

\* Bound: the number of dependency edges of the virtualenv's metadata.
MaxUpEdges == 1

\* The lines the minimal manifests of an upgraded directory are drawn from:
\* a, m, c.
UpMinimalLines ==
    << Line("a", <<>>, <<>>), Line(MissingKey, <<>>, <<>>), Line("c", <<>>, <<>>) >>

\* The metadata of the virtualenv: the base section of a; c>=0.5, m.
UpSources == { <<"a", BaseSection>> }
UpTargets == { r \in SubRequirements : r.extras = <<>> /\ r.key \in {"c", MissingKey} }

\* Distribution.project_name: the name as the project spells it.
ProjectName(k) == IF k = "c" THEN "C" ELSE k

\* Lines 83-85: '{}=={}'.format(installed_req.project_name, installed_req.version).
UpgradePin(installed_req) ==
    Line(ProjectName(installed_req.key), <<>>, << <<"==", installed_req.version>> >>)

\* Lines 55-68 with vcs=False: the lines that are no vcs line.
requirements(content) == SelectSeq(content, LAMBDA line : "name" \in DOMAIN line)

\* Lines 73-76: Requirement.parse of every line.
TopRequirements(content) ==
    [i \in 1..Len(requirements(content)) |->
        Req(KeyOf(requirements(content)[i].name), requirements(content)[i].extras,
            requirements(content)[i].specs)]

\* The member of a one-member set; a value bound this way is computed once.
The(S) == CHOOSE x \in S : TRUE

RECURSIVE InstalledSubs(_, _)
\* Lines 86-92: the loop over installed_req.requires(req.extras); st holds
\* requirements_to_parse, already_parsed, expected_pinned and unmet.
InstalledSubs(subs_arg, st_arg) ==
    The({ IF subs = <<>> THEN st
          ELSE IF Head(subs).key \notin DOMAIN installed_things
          THEN InstalledSubs(Tail(subs),
                             [st EXCEPT !.unmet = @ \cup {[key |-> Head(subs).key,
                                                          specs |-> Head(subs).specs]}])
          ELSE IF <<Head(subs).key, Head(subs).extras>> \notin st.already_parsed
          THEN InstalledSubs(Tail(subs),
                             [st EXCEPT !.requirements_to_parse = Append(@, Head(subs)),
                                        !.already_parsed =
                                            @ \cup {<<Head(subs).key, Head(subs).extras>>}])
          ELSE InstalledSubs(Tail(subs), st)
          : subs \in {subs_arg}, st \in {st_arg} })

\* Lines 81-92: one iteration of the while loop of installed(); pop() takes
\* the last one.
InstalledIteration(st) ==
    The({ InstalledSubs(
              requires(installed_things[popped.key], popped.extras),
              [st EXCEPT !.requirements_to_parse = SubSeq(@, 1, Len(@) - 1),
                         !.expected_pinned =
                             @ \cup {UpgradePin(installed_things[popped.key])}])
          : popped \in {st.requirements_to_parse[Len(st.requirements_to_parse)]} })

RECURSIVE InstalledLoop(_)
\* Lines 80-92: the while loop of installed().
InstalledLoop(st_arg) ==
    The({ IF st.requirements_to_parse = <<>> THEN st
          ELSE InstalledLoop(InstalledIteration(st))
          : st \in {st_arg} })

\* Lines 72-78: the locals of installed() before its loop.
InstalledLocals(top) ==
    [requirements_to_parse |-> top,
     already_parsed |-> { <<r.key, r.extras>> : r \in Range(top) },
     expected_pinned |-> {},
     unmet |-> {}]

\* Lines 71-97: installed() on the lines of a minimal manifest: a KeyError
\* when a requirement of the manifest is not installed (line 82), else
\* NeedsMoreInstalledError with the unmet, else the expected pins.
installed(content) ==
    The({ IF \E r \in Range(top) : r.key \notin DOMAIN installed_things
          THEN [kind |-> "KeyError", unmet |-> {}, expected_pinned |-> {}]
          ELSE The({ IF st.unmet # {}
                     THEN [kind |-> "NeedsMoreInstalledError", unmet |-> st.unmet,
                           expected_pinned |-> {}]
                     ELSE [kind |-> "ok", unmet |-> {},
                           expected_pinned |-> st.expected_pinned]
                     : st \in {InstalledLoop(InstalledLocals(top))} })
          : top \in {TopRequirements(content)} })

\* Lines 176-186: the try block on the two minimal manifests; the dev one is
\* read only when the prod one raised nothing.
TryBlock(prod, dev) ==
    The({ IF reqs.kind # "ok"
          THEN [kind |-> reqs.kind, unmet |-> reqs.unmet, expected_pinned |-> {},
                reqs_dev |-> {}, dev_read |-> FALSE]
          ELSE The({ [kind |-> reqs_dev.kind, unmet |-> reqs_dev.unmet,
                      expected_pinned |-> reqs.expected_pinned,
                      reqs_dev |-> reqs_dev.expected_pinned,
                      dev_read |-> exists[DevMinimal]]
                     : reqs_dev \in {IF exists[DevMinimal] THEN installed(dev)
                                     ELSE [kind |-> "ok", unmet |-> {},
                                           expected_pinned |-> {}]} })
          : reqs \in {installed(prod)} })

\* Line 200 as the next process finds it: pip has installed the unmet
\* projects, each without dependencies of its own, or has left them out
\* (pypa/pip#3903).
AfterPipInstall(unmet) ==
    { installed_things,
      [k \in DOMAIN installed_things \cup { u.key : u \in unmet } |->
          IF k \in DOMAIN installed_things THEN installed_things[k]
          ELSE Distribution(k, [s \in {BaseSection} |-> <<>>])] }

\* list(a set): its members in any order.
ListsOf(S) == { s \in [1..Cardinality(S) -> S] : Range(s) = S }

\* A cleanup that removes the directory only when its block is left
\* normally.
CleanupWithoutFinally(left_by) == left_by # "return"

\* Lines 105-110: whether the directory is there once the block of
\* `with cleanup_dir(dirname)` is left: by its end ("return"), by an
\* exception ("raise"), or by os.execv ("execv"), which replaces the
\* process and runs no finally clause.
cleanup_dir(left_by) == left_by = "execv"

\* Lines 167-170 and 117-146: the first process makes the virtualenv and
\* re-executes itself in it, exec-count passed along as it is; pip may fail.
UpVirtualenv ==
    /\ pc = "upgrade"
    /\ ~tempdir
    /\ IF ~exists[ProdMinimal]
       THEN /\ error' = [kind |-> "AssertionError"]
            /\ pc' = "failed"
            /\ UNCHANGED <<tempdir, tempdir_on_disk>>
       ELSE \/ /\ tempdir' = TRUE
               /\ tempdir_on_disk' = cleanup_dir("execv")
               /\ UNCHANGED <<pc, error>>
            \/ /\ error' = [kind |-> "CalledProcessError"]
               /\ pc' = "failed"
               /\ tempdir_on_disk' = cleanup_dir("raise")
               /\ UNCHANGED tempdir
    /\ UNCHANGED <<more_vars, env_vars, files, walk_vars, top_vars, pin_vars, parse_vars, read_vars,
                   dup_vars, exec_count, vcs_exists, reexecs, upgraded>>

\* Lines 167-236: main in the virtualenv.
UpMain ==
    /\ pc = "upgrade"
    /\ tempdir
    /\ \E prod \in KnownOr(ProdMinimal, Contents(UpMinimalLines, MaxUpLines)) :
       \E dev \in KnownOr(DevMinimal, Contents(UpMinimalLines, MaxUpLines)) :
       \E pip_ok \in BOOLEAN :
       \E try \in {TryBlock(prod, dev)} :
         LET new_exec_count == exec_count + 1
             create_reqs_dev == exists[DevMinimal] /\ vcs_exists[DevVcs]
             minimal_read == [files EXCEPT ![ProdMinimal] = ReadAs(prod),
                                           ![DevMinimal] =
                                               IF try.dev_read THEN ReadAs(dev) ELSE @]
         IN  CASE try.kind = "KeyError" ->
                    /\ error' = [kind |-> "KeyError"]
                    /\ pc' = "failed"
                    /\ tempdir_on_disk' = cleanup_dir("raise")
                    /\ files' = minimal_read
                    /\ UNCHANGED <<env_vars, exec_count, reexecs, upgraded>>
               [] try.kind = "NeedsMoreInstalledError" ->
                    IF OverLimit(new_exec_count)
                    THEN /\ error' = [kind |-> "ExecLimit"]
                         /\ pc' = "failed"
                         /\ tempdir_on_disk' = cleanup_dir("raise")
                         /\ files' = minimal_read
                         /\ UNCHANGED <<env_vars, exec_count, reexecs, upgraded>>
                    ELSE IF ~pip_ok
                    THEN /\ error' = [kind |-> "CalledProcessError"]
                         /\ pc' = "failed"
                         /\ tempdir_on_disk' = cleanup_dir("raise")
                         /\ files' = minimal_read
                         /\ UNCHANGED <<env_vars, exec_count, reexecs, upgraded>>
                    ELSE /\ installed_things' \in AfterPipInstall(try.unmet)
                         /\ exec_count' = new_exec_count
                         /\ reexecs' = reexecs + 1
                         /\ tempdir_on_disk' = cleanup_dir("execv")
                         /\ files' = minimal_read
                         /\ UNCHANGED <<exists, pc, error, upgraded>>
               [] OTHER ->
                    /\ \E reqs_full \in ListsOf(try.expected_pinned) :
                       \E reqs_full_dev \in ListsOf(try.reqs_dev \ try.expected_pinned) :
                          files' = [minimal_read EXCEPT
                                       ![ProdPins] = ReadAs(reqs_full),
                                       ![DevPins] = IF create_reqs_dev
                                                    THEN ReadAs(reqs_full_dev) ELSE @]
                    /\ exists' = [exists EXCEPT ![ProdPins] = TRUE,
                                                ![DevPins] = @ \/ create_reqs_dev]
                    /\ IF ~pip_ok
                       THEN /\ error' = [kind |-> "CalledProcessError"]
                            /\ pc' = "failed"
                            /\ tempdir_on_disk' = cleanup_dir("raise")
                            /\ UNCHANGED upgraded
                       ELSE IF create_reqs_dev
                       THEN /\ error' = [kind |-> "TypeError"]
                            /\ pc' = "failed"
                            /\ tempdir_on_disk' = cleanup_dir("raise")
                            /\ UNCHANGED upgraded
                       ELSE /\ upgraded' = TRUE
                            /\ pc' = "start"
                            /\ tempdir_on_disk' = cleanup_dir("return")
                            /\ UNCHANGED error
                    /\ UNCHANGED <<installed_things, exec_count, reexecs>>
    /\ UNCHANGED <<more_vars, walk_vars, top_vars, pin_vars, parse_vars, read_vars, dup_vars,
                   tempdir, vcs_exists>>

\* upgrade-requirements run in a directory, the virtualenv it makes holding
\* every project of Keys.
InitUpgrade ==
    /\ installed_things \in WorkingSets(UpSources, UpTargets, MaxUpEdges)
    /\ exists \in [FileNames -> BOOLEAN]
    /\ files = [f \in FileNames |-> Unread]
    /\ pc = "upgrade"
    /\ error = NoError
    /\ WalkIdle
    /\ TopIdle
    /\ PinIdle
    /\ MoreIdle
    /\ ParseIdle
    /\ ReadIdle
    /\ DupIdle
    /\ exec_count = 0
    /\ tempdir = FALSE
    /\ tempdir_on_disk = FALSE
    /\ vcs_exists \in [{DevVcs} -> BOOLEAN]
    /\ reexecs = 0
    /\ upgraded = FALSE

NextUpgrade == UpVirtualenv \/ UpMain

\* The tool alone; a process takes its next step.
FairSpecUpgrade == InitUpgrade /\ [][NextUpgrade]_vars /\ WF_vars(NextUpgrade)

\* The tool, then test_top_level_dependencies of the checker in the same
\* directory with the same projects installed: the steps of the test that
\* can be taken where requirements-minimal.txt and requirements.txt exist.
NextUpgradeCheck ==
    \/ UpVirtualenv \/ UpMain
    \/ TopBegin \/ ReadMinimal
    \/ ExpectedStep \/ ExpectedUnion \/ ExpectedReturnProd \/ ExpectedReturnDev
    \/ ComparePinned \/ CompareAbsent \/ TopPass
    \/ WalkPop \/ WalkSub \/ WalkSubEnd \/ WalkReturn

SpecUpgradeCheck == InitUpgrade /\ [][NextUpgradeCheck]_vars

----------------------------------------------------------------------------
(* The re-exec bound of the upgrade tool: C19.                             *)

\* The upgrade process has ended, by running to its end or by an exception.
UpgradeOver == upgraded \/ pc = "failed"

\* C19 (upgrade re-exec bound): every re-exec for unmet dependencies raises
\* exec-count by exactly one and leaves it within exec-limit; a process that
\* finds unmet dependencies with exec-count + 1 over exec-limit re-executes
\* nothing and fails with the assertion; so there are never more than
\* exec-limit such re-execs, and the tool ends, whatever pip leaves unmet.
C19_ReexecBound ==
    /\ [][reexecs' # reexecs =>
            /\ reexecs' = reexecs + 1
            /\ exec_count' = exec_count + 1
            /\ exec_count' <= ExecLimit]_vars
    /\ [][(pc = "upgrade" /\ exec_count + 1 > ExecLimit) =>
            /\ reexecs' = reexecs
            /\ exec_count' = exec_count
            /\ (pc' = "upgrade" \/ pc' = "start" \/ pc' = "failed")]_vars
    /\ [][(/\ pc = "upgrade" /\ tempdir /\ exec_count + 1 > ExecLimit
            /\ \A prod \in KnownOr(ProdMinimal, Contents(UpMinimalLines, MaxUpLines)) :
               \A dev \in KnownOr(DevMinimal, Contents(UpMinimalLines, MaxUpLines)) :
                  TryBlock(prod, dev).kind = "NeedsMoreInstalledError") =>
            /\ error'.kind = "ExecLimit"
            /\ pc' = "failed"]_vars
    /\ [](error.kind = "ExecLimit" => exec_count = ExecLimit /\ pc = "failed")
    /\ [](reexecs <= ExecLimit /\ reexecs = exec_count)
    /\ <>UpgradeOver

\* C19 case: pip has left a dependency unmet through exec-limit re-execs,
\* and the next process failed with the assertion.
C19_Witness ==
    /\ error.kind = "ExecLimit"
    /\ pc = "failed"
    /\ reexecs = ExecLimit
    /\ exec_count = ExecLimit

----------------------------------------------------------------------------
(* The files the upgrade tool writes, under the checker: C20.              *)

\* C20 as worded (upgrade output satisfies the checker): after a successful
\* upgrade run, requirements-dev.txt exists whenever
\* requirements-dev-minimal.txt does, and test_top_level_dependencies does
\* not fail on the files of the directory.
C20_AsStated ==
    upgraded =>
        /\ exists[DevMinimal] => exists[DevPins]
        /\ pc # "failed"

\* C20 (what the tool's output satisfies): after a successful upgrade run
\* requirements.txt is written and the checker finds it equal to its prod
\* expected set; requirements-dev.txt is written only where both
\* requirements-dev-minimal.txt and requirements-dev-vcs.txt exist, and such
\* a run ends with the TypeError of the fixer's call, so no successful run
\* has written it; the checker passes where requirements-dev-minimal.txt
\* does not exist, and where it fails, it fails on requirements-dev.txt.
C20_ProdFileOnly ==
    /\ upgraded =>
          /\ exists[ProdPins]
          /\ files[ProdPins].read
          /\ exists[DevMinimal] => ~vcs_exists[DevVcs]
          /\ ~exists[DevMinimal] => pc # "failed"
          /\ Len(environments) >= 1 =>
                Mismatch(environments[1], Declared(files[ProdPins].lines, ProdPins))
                    = NoError
          /\ pc = "failed" =>
                /\ error.kind \in {"RequiredButNotPinned", "PinnedButNotRequired"}
                /\ error.pin = DevPins
    /\ error.kind = "TypeError" =>
          /\ exists[DevMinimal] /\ vcs_exists[DevVcs]
          /\ exists[DevPins] /\ files[DevPins].read
          /\ ~upgraded

\* C20 case: requirements-dev-minimal.txt exists, the upgrade run has
\* succeeded without writing requirements-dev.txt, and the checker has
\* failed for the dev pins it expects and does not find.
C20_Witness ==
    /\ upgraded
    /\ exists[DevMinimal]
    /\ ~exists[DevPins]
    /\ pc = "failed"
    /\ error.kind = "RequiredButNotPinned"
    /\ error.pin = DevPins
    /\ files[ProdPins].lines # <<>>

----------------------------------------------------------------------------
(* check_requirements.py (the top-level one):                              *)
(* test_javascript_package_versions.  A package name is the sequence of    *)
(* its pieces, '_' and '-' being pieces of their own.                      *)

\* Line 314.
JsFileNames == <<"bower.json", "package.json">>

\* The names and versions the dependency maps are drawn from: a, left-pad
\* and left_pad; 1.0 (the version a is installed at) and 2.0.
JsNames == { <<"a">>, <<"left", "-", "pad">>, <<"left", "_", "pad">> }
JsVersions == { "1.0", "2.0" }

\* Bound: the number of entries of contents['dependencies'].
MaxJsDeps == 2

\* The dependency maps of at most n entries.
DependencyMaps(n) ==
    UNION { [S -> JsVersions] : S \in SmallSets(JsNames, n) }

\* Line 326: package_name.replace('_', '-').
ReplaceUnderscores(package_name) ==
    [i \in 1..Len(package_name) |->
        IF package_name[i] = "_" THEN "-" ELSE package_name[i]]

\* Lines 320-327 for the files from the i-th on, js_packages being a
\* defaultdict(set).
RECURSIVE LoadJs(_, _)
LoadJs(i, packages) ==
    IF i > Len(JsFileNames) THEN packages
    ELSE IF ~js_files[i].exists THEN LoadJs(i + 1, packages)
    ELSE LET dependencies == js_files[i].dependencies
             names == { ReplaceUnderscores(n) : n \in DOMAIN dependencies }
             added(p) == { dependencies[n] : n \in { x \in DOMAIN dependencies :
                                                        ReplaceUnderscores(x) = p } }
         IN  LoadJs(i + 1,
                    [p \in DOMAIN packages \cup names |->
                        (IF p \in DOMAIN packages THEN packages[p] ELSE {})
                            \cup added(p)])

\* Line 345: package_name in installed_things, the index being keyed by the
\* keys of the installed projects.
InPython(package_name) ==
    Len(package_name) = 1 /\ package_name[1] \in DOMAIN installed_things

\* Lines 314-316: neither file exists, the test is skipped.
JsSkip ==
    /\ pc = "js_start"
    /\ \A i \in 1..Len(JsFileNames) : ~js_files[i].exists
    /\ pc' = "skipped"
    /\ UNCHANGED <<env_vars, files, error, walk_vars, top_vars, pin_vars, parse_vars,
                   read_vars, dup_vars, upgrade_vars, work_vars, viz_vars, npm_vars, js_vars>>

\* Lines 318-327: the loop over the files.
JsLoad ==
    /\ pc = "js_start"
    /\ \E i \in 1..Len(JsFileNames) : js_files[i].exists
    /\ js_packages' = LoadJs(1, <<>>)
    /\ js_left' = DOMAIN LoadJs(1, <<>>)
    /\ pc' = "js_check"
    /\ UNCHANGED <<env_vars, files, error, walk_vars, top_vars, pin_vars, parse_vars,
                   read_vars, dup_vars, upgrade_vars, work_vars, viz_vars, npm_vars, js_files>>

\* Lines 329-355: one pass through the loop over js_packages.items(), in
\* whatever order the dict gives.
JsCheck ==
    /\ pc = "js_check"
    /\ \E package_name \in js_left :
         LET versions == js_packages[package_name]
             version == CHOOSE v \in versions : TRUE
         IN  IF Cardinality(versions) > 1
             THEN /\ error' = [kind |-> "MultipleVersions", package |-> package_name,
                               versions |-> versions]
                  /\ pc' = "failed"
                  /\ UNCHANGED js_left
             ELSE IF InPython(package_name)
                     /\ installed_things[package_name[1]].version # version
             THEN /\ error' = [kind |-> "PythonDisagrees", package |-> package_name,
                               javascript |-> version,
                               python |-> installed_things[package_name[1]].version]
                  /\ pc' = "failed"
                  /\ UNCHANGED js_left
             ELSE /\ js_left' = js_left \ {package_name}
                  /\ UNCHANGED <<pc, error>>
    /\ UNCHANGED <<env_vars, files, walk_vars, top_vars, pin_vars, parse_vars,
                   read_vars, dup_vars, upgrade_vars, work_vars, viz_vars, npm_vars, js_files, js_packages>>

\* The loop ends: the test passes.
JsPass ==
    /\ pc = "js_check"
    /\ js_left = {}
    /\ pc' = "passed"
    /\ UNCHANGED <<env_vars, files, error, walk_vars, top_vars, pin_vars, parse_vars,
                   read_vars, dup_vars, upgrade_vars, work_vars, viz_vars, npm_vars, js_vars>>

\* test_javascript_package_versions run in any directory, a, b and c
\* installed.
InitJs ==
    /\ installed_things \in WorkingSets(TopSources, TopTargets, 0)
    /\ exists = [f \in FileNames |-> FALSE]
    /\ files = [f \in FileNames |-> Unread]
    /\ pc = "js_start"
    /\ error = NoError
    /\ WalkIdle
    /\ TopIdle
    /\ PinIdle
    /\ UnitIdle
    /\ WorkIdle
    /\ js_files \in [1..Len(JsFileNames) ->
                        [exists : BOOLEAN, dependencies : DependencyMaps(MaxJsDeps)]]
    /\ \A i \in 1..Len(JsFileNames) :
          ~js_files[i].exists => js_files[i].dependencies = <<>>
    /\ js_packages = <<>>
    /\ js_left = {}
    /\ NpmIdle
    /\ VizIdle

NextJs == JsSkip \/ JsLoad \/ JsCheck \/ JsPass

SpecJs == InitJs /\ [][NextJs]_vars

\* The declarations of the existing files: <<file index, name as written>>.
JsDeclared ==
    { <<i, n>> \in (1..Len(JsFileNames)) \X JsNames :
        js_files[i].exists /\ n \in DOMAIN js_files[i].dependencies }

\* (a) as worded: bower.json and package.json declare different versions
\* for a package they share, names compared after the replacement.
JsFilesDisagree ==
    \E n1 \in JsNames, n2 \in JsNames :
        /\ <<1, n1>> \in JsDeclared /\ <<2, n2>> \in JsDeclared
        /\ ReplaceUnderscores(n1) = ReplaceUnderscores(n2)
        /\ js_files[1].dependencies[n1] # js_files[2].dependencies[n2]

\* Two declarations, of any file, give one package different versions.
JsDeclaredTwice ==
    \E d1 \in JsDeclared, d2 \in JsDeclared :
        /\ ReplaceUnderscores(d1[2]) = ReplaceUnderscores(d2[2])
        /\ js_files[d1[1]].dependencies[d1[2]] # js_files[d2[1]].dependencies[d2[2]]

\* (b): a declared package is installed in Python at another version.
JsPythonDisagrees ==
    \E d \in JsDeclared :
        /\ InPython(ReplaceUnderscores(d[2]))
        /\ installed_things[ReplaceUnderscores(d[2])[1]].version
              # js_files[d[1]].dependencies[d[2]]

\* C21 as worded (JavaScript version audit): the test fails exactly when
\* bower.json and package.json disagree on a shared package or a declared
\* package is installed in Python at another version, and passes otherwise.
C21_AsStated ==
    pc \in {"failed", "passed"} =>
        (pc = "failed" <=> (JsFilesDisagree \/ JsPythonDisagrees))

\* C21 (what the test does): it fails exactly when two declarations, be they
\* of one file, give one package (underscores replaced) different versions,
\* or a declared package is installed in Python at another version; it
\* passes otherwise, a package unknown to Python included.
C21_AnyTwoDeclarations ==
    pc \in {"failed", "passed"} =>
        /\ pc = "failed" <=> (JsDeclaredTwice \/ JsPythonDisagrees)
        /\ error.kind = "MultipleVersions" =>
              /\ JsDeclaredTwice
              /\ Cardinality(error.versions) > 1
        /\ error.kind = "PythonDisagrees" => JsPythonDisagrees

\* C21 case: one file alone declares left_pad and left-pad at different
\* versions, and the test has failed for multiple versions.
C21_Witness ==
    /\ pc = "failed"
    /\ error.kind = "MultipleVersions"
    /\ js_files[1].exists /\ ~js_files[2].exists
    /\ ~JsFilesDisagree
    /\ ~JsPythonDisagrees

----------------------------------------------------------------------------
(* check_requirements.py (the top-level one): parse_npm_dependency_tree    *)
(* and npm_installed_reason.  A tree is its root's version and the version *)
(* of every node below the root, a node being the path of names that leads *)
(* to it; the string 'name@version' is the sequence of its pieces.         *)

\* The name of the root (tree['name']) and the names of the packages.
RootName == "r"
NpmNames == { "a", "b", "jquery" }
NpmVersions == { "1", "2" }

\* Bound: the number of nodes below the root.
MaxNpmNodes == 3

RECURSIVE TreeShapes(_)
\* The sets of at most n paths that hold the parent of each of their paths.
TreeShapes(n) ==
    IF n = 0 THEN {{}}
    ELSE LET T == TreeShapes(n - 1)
         IN  T \cup UNION { { t \cup {Append(p, x)} : p \in t \cup {<<>>}, x \in NpmNames }
                            : t \in T }

\* The trees of at most n nodes below the root; the root may lack a version.
NpmTrees(n) ==
    { [version |-> rv, nodes |-> f] :
        rv \in {NoVersion, "1"},
        f \in UNION { [S -> NpmVersions] : S \in TreeShapes(n) } }

\* cur.get('dependencies', {}).items() of the node at `path`.
Dependencies(tree, path) ==
    { p \in DOMAIN tree.nodes :
        Len(p) = Len(path) + 1 /\ SubSeq(p, 1, Len(path)) = path }

\* '{}@{}'.format(name, version).
FormatWanter(name, version) == <<name, "@", version>>

\* Lines 457-460: the parent's name and parent.get('version', '*').
ParentWanter(tree, path) ==
    IF Len(path) = 1
    THEN FormatWanter(RootName,
                      IF tree.version = NoVersion THEN "*" ELSE tree.version)
    ELSE FormatWanter(path[Len(path) - 1],
                      tree.nodes[SubSeq(path, 1, Len(path) - 1)])

\* ret[name][version].add(wanter), ret being a defaultdict of defaultdicts
\* of sets.
AddWanter(acc, name, version, wanter) ==
    LET versions == IF name \in DOMAIN acc THEN acc[name] ELSE <<>>
        wanters == IF version \in DOMAIN versions THEN versions[version] ELSE {}
    IN  [n \in DOMAIN acc \cup {name} |->
            IF n # name THEN acc[n]
            ELSE [v \in DOMAIN versions \cup {version} |->
                    IF v # version THEN versions[v] ELSE wanters \cup {wanter}]]

\* A reading of lines 451-456 that excludes nothing.
NothingExcluded(name) == FALSE

\* Line 455: name == 'jquery'.
IsExcluded(name) == name = "jquery"

RECURSIVE Inner(_, _, _)
RECURSIVE InnerEach(_, _, _)
\* Lines 450-463: inner(cur, name, parent) for the node at `path`, the root
\* being the empty path, called without a name.
Inner(tree, path, acc) ==
    IF path # <<>> /\ IsExcluded(path[Len(path)]) THEN acc
    ELSE InnerEach(tree, Dependencies(tree, path),
                   IF path = <<>> THEN acc
                   ELSE AddWanter(acc, path[Len(path)], tree.nodes[path],
                                  ParentWanter(tree, path)))

\* Lines 462-463: the loop over the dependencies, in the dict's order.
InnerEach(tree, deps, acc) ==
    IF deps = {} THEN acc
    ELSE LET dep == CHOOSE p \in deps : TRUE
         IN  InnerEach(tree, deps \ {dep}, Inner(tree, dep, acc))

\* Lines 433-465.
parse_npm_dependency_tree(tree) == Inner(tree, <<>>, <<>>)

\* first_wanter.split('@').
SplitAt(s) == SelectSeq(s, LAMBDA piece : piece # "@")

\* The pieces in the order of their first characters: * 1 2 a b j r.
PieceOrder == <<"*", "1", "2", "a", "b", "jquery", "r">>
PieceRank(piece) == CHOOSE i \in 1..Len(PieceOrder) : PieceOrder[i] = piece

\* 'n1@v1' < 'n2@v2' as strings, the names differing in their first
\* characters where they differ.
WanterLess(x, y) ==
    \/ PieceRank(x[1]) < PieceRank(y[1])
    \/ x[1] = y[1] /\ PieceRank(x[3]) < PieceRank(y[3])

\* Line 474: sorted(wanted_by)[0].
FirstWanter(wanted_by) ==
    CHOOSE x \in wanted_by : \A y \in wanted_by \ {x} : WanterLess(x, y)

\* The npm tree is parsed (lines 492-494 of test_all_npm_packages_pinned).
NpmParse ==
    /\ pc = "npm_start"
    /\ npm_list' = parse_npm_dependency_tree(npm_tree)
    /\ pc' = "npm_parsed"
    /\ UNCHANGED <<env_vars, files, error, walk_vars, top_vars, pin_vars, parse_vars,
                   read_vars, dup_vars, upgrade_vars, work_vars, viz_vars, js_vars, npm_tree, npm_stack,
                   npm_chain>>

\* npm_installed_reason is called for a package and version of npm_list.
NpmReasonCall ==
    /\ pc = "npm_parsed"
    /\ \E package \in DOMAIN npm_list :
       \E version \in DOMAIN npm_list[package] :
          npm_stack' = << <<package, version>> >>
    /\ npm_chain' = <<>>
    /\ pc' = "npm_reason"
    /\ UNCHANGED <<env_vars, files, error, walk_vars, top_vars, pin_vars, parse_vars,
                   read_vars, dup_vars, upgrade_vars, work_vars, viz_vars, js_vars, npm_tree, npm_list>>

\* Lines 468-478: the body of the innermost call.  A package that is no key
\* of npm_list ends the chain, and every call returns.  A call with the
\* arguments of one that has not returned repeats it without end: Python
\* stops it with a RecursionError.
NpmReasonStep ==
    /\ pc = "npm_reason"
    /\ LET package == npm_stack[Len(npm_stack)][1]
           version == npm_stack[Len(npm_stack)][2]
       IN  IF package \notin DOMAIN npm_list
           THEN /\ npm_chain' = Append(npm_chain, <<"(package.json)">>)
                /\ npm_stack' = <<>>
                /\ pc' = "npm_returned"
                /\ UNCHANGED error
           ELSE LET wanted_by == IF version \in DOMAIN npm_list[package]
                                 THEN npm_list[package][version] ELSE {}
                IN  IF wanted_by = {}
                    THEN /\ error' = [kind |-> "IndexError"]
                         /\ pc' = "failed"
                         /\ UNCHANGED <<npm_stack, npm_chain>>
                    ELSE LET first_wanter == FirstWanter(wanted_by)
                             args == SplitAt(first_wanter)
                         IN  IF \E i \in 1..Len(npm_stack) : npm_stack[i] = args
                             THEN /\ error' = [kind |-> "RecursionError"]
                                  /\ pc' = "failed"
                                  /\ npm_chain' = Append(npm_chain, first_wanter)
                                  /\ UNCHANGED npm_stack
                             ELSE /\ npm_chain' = Append(npm_chain, first_wanter)
                                  /\ npm_stack' = Append(npm_stack, args)
                                  /\ UNCHANGED <<pc, error>>
    /\ UNCHANGED <<env_vars, files, walk_vars, top_vars, pin_vars, parse_vars,
                   read_vars, dup_vars, upgrade_vars, work_vars, viz_vars, js_vars, npm_tree, npm_list>>

\* `npm list --json` has given a tree.
InitNpm ==
    /\ installed_things \in WorkingSets(TopSources, TopTargets, 0)
    /\ exists = [f \in FileNames |-> FALSE]
    /\ files = [f \in FileNames |-> Unread]
    /\ pc = "npm_start"
    /\ error = NoError
    /\ WalkIdle
    /\ TopIdle
    /\ PinIdle
    /\ UnitIdle
    /\ WorkIdle
    /\ JsIdle
    /\ VizIdle
    /\ npm_tree \in NpmTrees(MaxNpmNodes)
    /\ npm_list = <<>>
    /\ npm_stack = <<>>
    /\ npm_chain = <<>>

NextNpm == NpmParse \/ NpmReasonCall \/ NpmReasonStep

SpecNpm == InitNpm /\ [][NextNpm]_vars

----------------------------------------------------------------------------
(* npm tree parsing: C22.                                                  *)

\* The nodes that are no jquery node and lie beneath none.
CountedNodes == { p \in DOMAIN npm_tree.nodes : \A i \in 1..Len(p) : p[i] # "jquery" }

\* <<name, version, wanter>> for every wanter npm_list holds.
NpmEntries ==
    UNION { UNION { { <<n, v, w>> : w \in npm_list[n][v] } : v \in DOMAIN npm_list[n] }
            : n \in DOMAIN npm_list }

\* C22 (npm tree parsing): the parsed structure holds, for each name and
\* version of a node below the root, exactly the 'parent@version' strings of
\* the direct parents of the nodes of that name and version, a root without
\* a version being rendered 'r@*'; jquery nodes and the nodes beneath them
\* contribute nothing, and no name or version is there without a wanter.
C22_NpmTreeParsing ==
    pc # "npm_start" =>
        /\ NpmEntries =
              { <<p[Len(p)], npm_tree.nodes[p],
                  IF Len(p) = 1
                  THEN <<RootName, "@",
                         IF npm_tree.version = NoVersion THEN "*" ELSE npm_tree.version>>
                  ELSE <<p[Len(p) - 1], "@", npm_tree.nodes[SubSeq(p, 1, Len(p) - 1)]>> >>
                : p \in CountedNodes }
        /\ \A n \in DOMAIN npm_list :
              /\ DOMAIN npm_list[n] # {}
              /\ \A v \in DOMAIN npm_list[n] : npm_list[n][v] # {}
        /\ "jquery" \notin DOMAIN npm_list

\* C22 case: a, installed beside a jquery node that holds a as well, is
\* parsed under a root without a version: a is wanted by 'r@*' alone.
C22_Witness ==
    /\ pc = "npm_parsed"
    /\ npm_tree.version = NoVersion
    /\ <<"jquery", "a">> \in DOMAIN npm_tree.nodes
    /\ <<"a">> \in DOMAIN npm_tree.nodes
    /\ npm_tree.nodes[<<"a">>] = npm_tree.nodes[<<"jquery", "a">>]
    /\ DOMAIN npm_list = {"a"}
    /\ npm_list["a"][npm_tree.nodes[<<"a">>]] = { <<RootName, "@", "*">> }

----------------------------------------------------------------------------
(* The wanted-by chain: C27.                                               *)

\* C27 as worded (wanted-by chain termination): every call of
\* npm_installed_reason for a package and version of the parsed structure
\* returns, and the chain it returns ends in '(package.json)'.
C27_AsStated ==
    /\ pc = "failed" => error.kind # "RecursionError"
    /\ pc = "npm_returned" =>
          npm_chain[Len(npm_chain)] = <<"(package.json)">>

\* <<parent, child>> for every node below a node.
HoldsPairs ==
    { <<p[Len(p) - 1], p[Len(p)]>> : p \in { q \in DOMAIN npm_tree.nodes : Len(q) > 1 } }

RECURSIVE HoldsWithin(_)
\* <<x, y>> where y is held by x through at most n nodes.
HoldsWithin(n) ==
    IF n = 1 THEN HoldsPairs
    ELSE LET H == HoldsWithin(n - 1)
         IN  H \cup { <<e[1], f[2]>> : <<e, f>> \in { g \in H \X HoldsPairs : g[1][2] = g[2][1] } }

\* No package holds, through any number of packages, a package of its own
\* name, be it in one branch of the tree or across several.
NoPackageHoldsItself ==
    \A e \in HoldsWithin(Cardinality(NpmNames)) : e[1] # e[2]

\* C27 (where the chain ends): a call that returns gives a chain of wanters,
\* each wanting the one before it, that ends in '(package.json)' after the
\* root; a call fails only by repeating itself without end, which takes a
\* package that holds, through other packages, a package of its own name;
\* where no package does, every call returns.
C27_ChainOfAcyclicTree ==
    /\ pc = "npm_returned" =>
          /\ Len(npm_chain) >= 2
          /\ npm_chain[Len(npm_chain)] = <<"(package.json)">>
          /\ npm_chain[Len(npm_chain) - 1][1] = RootName
    /\ pc \in {"npm_reason", "npm_returned", "failed"} =>
          \A i \in 1..Len(npm_chain) :
              (Len(npm_chain[i]) = 3 /\ i > 1) =>
                  npm_chain[i] \in
                      npm_list[npm_chain[i - 1][1]][npm_chain[i - 1][3]]
    /\ pc = "failed" =>
          /\ error.kind = "RecursionError"
          /\ ~NoPackageHoldsItself

\* C27 case: a is installed below the root and again beneath b, which a
\* holds, so that a@v occurs at two depths; the first wanter of a is b, the
\* first wanter of b is a, and the call for a has repeated itself.
C27_Witness ==
    /\ pc = "failed"
    /\ error.kind = "RecursionError"
    /\ DOMAIN npm_tree.nodes = { <<"a">>, <<"a", "b">>, <<"a", "b", "a">> }
    /\ npm_tree.nodes[<<"a">>] = npm_tree.nodes[<<"a", "b", "a">>]
    /\ npm_stack[1][1] = "a"

----------------------------------------------------------------------------
(* requirements_tools/visualize_requirements.py: print_req, called by main *)
(* on a requirement of the manifest.  A call is a frame of viz_stack; a    *)
(* printed line is the record of what its format is given.                 *)

\* Bound: the number of dependency edges of the installed metadata.
MaxVizEdges == 3

\* The sections and requirements of the metadata: the base sections of a
\* and b and b's extra x; a, b[x], m.
VizSources == { <<"a", BaseSection>>, <<"b", BaseSection>>, <<"b", "x">> }
VizTargets ==
    { r \in SubRequirements :
        \/ r.key \in {"a", MissingKey}
        \/ r.key = "b" /\ r.extras = <<"x">> }

\* The requirements of the manifest: a, b, b[x] and m, which is not
\* installed.
VizSeeds == { Req(r.key, r.extras, <<>>) : r \in VizTargets } \cup { Req("b", <<>>, <<>>) }

\* A call print_req(req, depth, seen) that has not run yet.
Frame(r, depth, seen) ==
    [req |-> r, depth |-> depth, seen |-> seen, called |-> FALSE, sub_left |-> <<>>]

\* Lines 41-44: seen[seen.index(req.key):] + (req.key,), the empty tuple
\* standing for circular = ''.
Circular(key, seen) ==
    IF \E i \in 1..Len(seen) : seen[i] = key
    THEN LET first == CHOOSE i \in 1..Len(seen) :
                          seen[i] = key /\ \A j \in 1..(i - 1) : seen[j] # key
         IN  Append(SubSeq(seen, first, Len(seen)), key)
    ELSE <<>>

\* A reading of line 68 that returns for an unmet requirement only.
ReturnsIfUnmet(circular, unmet) == unmet

\* Line 68: if circular or unmet.
ReturnsEarly(circular, unmet) == circular # <<>> \/ unmet

\* Lines 41-69: the call on top of the stack runs up to its loop: it prints
\* its line and returns if the requirement is circular or unmet.
VizCall ==
    /\ pc = "viz"
    /\ viz_stack # <<>>
    /\ ~viz_stack[Len(viz_stack)].called
    /\ LET n == Len(viz_stack)
           frame == viz_stack[n]
           key == frame.req.key
           circular == Circular(key, frame.seen)
           unmet == key \notin DOMAIN installed_things
       IN  /\ viz_out' = Append(viz_out,
                  [depth |-> frame.depth, key |-> key, extras |-> frame.req.extras,
                   specs |-> frame.req.specs, circular |-> circular, unmet |-> unmet])
           /\ IF ReturnsEarly(circular, unmet)
              THEN /\ viz_stack' = SubSeq(viz_stack, 1, n - 1)
                   /\ pc' = IF n = 1 THEN "viz_done" ELSE pc
              ELSE /\ viz_stack' =
                         [viz_stack EXCEPT ![n].called = TRUE,
                                           ![n].sub_left =
                                               requires(installed_things[key],
                                                        frame.req.extras)]
                   /\ UNCHANGED pc
    /\ UNCHANGED <<env_vars, files, error, walk_vars, top_vars, pin_vars, parse_vars,
                   read_vars, dup_vars, upgrade_vars, work_vars, js_vars, npm_vars>>

\* Lines 71-72: one pass through the loop calls print_req on the next
\* sub-requirement.
VizLoop ==
    /\ pc = "viz"
    /\ viz_stack # <<>>
    /\ viz_stack[Len(viz_stack)].called
    /\ viz_stack[Len(viz_stack)].sub_left # <<>>
    /\ LET n == Len(viz_stack)
           frame == viz_stack[n]
       IN  viz_stack' =
               Append([viz_stack EXCEPT ![n].sub_left = Tail(@)],
                      Frame(Head(frame.sub_left), frame.depth + 1,
                            Append(frame.seen, frame.req.key)))
    /\ UNCHANGED <<env_vars, files, pc, error, walk_vars, top_vars, pin_vars,
                   parse_vars, read_vars, dup_vars, upgrade_vars, work_vars, js_vars, npm_vars,
                   viz_out>>

\* The loop ends and the call returns.
VizReturn ==
    /\ pc = "viz"
    /\ viz_stack # <<>>
    /\ viz_stack[Len(viz_stack)].called
    /\ viz_stack[Len(viz_stack)].sub_left = <<>>
    /\ viz_stack' = SubSeq(viz_stack, 1, Len(viz_stack) - 1)
    /\ pc' = IF Len(viz_stack) = 1 THEN "viz_done" ELSE pc
    /\ UNCHANGED <<env_vars, files, error, walk_vars, top_vars, pin_vars, parse_vars,
                   read_vars, dup_vars, upgrade_vars, work_vars, js_vars, npm_vars, viz_out>>

\* main (lines 80-82) calls print_req(requirement, 0) for a requirement of
\* the manifest.
InitViz ==
    /\ installed_things \in WorkingSets(VizSources, VizTargets, MaxVizEdges)
    /\ exists = [f \in FileNames |-> FALSE]
    /\ files = [f \in FileNames |-> Unread]
    /\ pc = "viz"
    /\ error = NoError
    /\ WalkIdle
    /\ TopIdle
    /\ PinIdle
    /\ UnitIdle
    /\ WorkIdle
    /\ JsIdle
    /\ NpmIdle
    /\ \E seed \in VizSeeds : viz_stack = << Frame(seed, 0, <<>>) >>
    /\ viz_out = <<>>

NextViz == VizCall \/ VizLoop \/ VizReturn

\* print_req always takes its next step: it is straight-line Python.
FairSpecViz == InitViz /\ [][NextViz]_vars /\ WF_vars(NextViz)

----------------------------------------------------------------------------
(* Visualizer termination and marking: C23.                                *)

RECURSIVE LineOver(_, _)
\* The line of the call that made the call of line i: the last line before
\* i that is one level higher; 0 for a line of depth 0.
LineOver(i, j) ==
    IF j = 0 THEN 0
    ELSE IF viz_out[j].depth = viz_out[i].depth - 1 THEN j
    ELSE LineOver(i, j - 1)

RECURSIVE KeysOver(_)
\* The keys on the path that leads to line i, from depth 0 down.
KeysOver(i) ==
    LET over == LineOver(i, i - 1)
    IN  IF over = 0 THEN <<>> ELSE Append(KeysOver(over), viz_out[over].key)

\* The lines printed by the calls that line i's call made, in order.
LinesUnder(i) ==
    SelectSeq([j \in 1..Len(viz_out) |-> j],
              LAMBDA j : j > i /\ viz_out[j].depth = viz_out[i].depth + 1
                               /\ LineOver(j, j - 1) = i)

\* Line i carries a marker.
Marked(i) == viz_out[i].circular # <<>> \/ viz_out[i].unmet

\* What the lines printed say once print_req has returned.
VizMarking ==
    \A i \in 1..Len(viz_out) :
        LET line == viz_out[i]
            path == KeysOver(i)
            under == LinesUnder(i)
        IN  /\ line.unmet <=> line.key \notin DOMAIN installed_things
            /\ line.circular # <<>> <=> \E k \in 1..Len(path) : path[k] = line.key
            /\ line.circular # <<>> =>
                  /\ line.circular[1] = line.key
                  /\ line.circular[Len(line.circular)] = line.key
                  /\ \E k \in 1..Len(path) :
                        line.circular = Append(SubSeq(path, k, Len(path)), line.key)
                  /\ \A k \in 2..(Len(line.circular) - 1) : line.circular[k] # line.key
            /\ Marked(i) => under = <<>>
            /\ ~Marked(i) =>
                  [k \in 1..Len(under) |->
                      Req(viz_out[under[k]].key, viz_out[under[k]].extras,
                          viz_out[under[k]].specs)]
                    = requires(installed_things[line.key], line.extras)

\* C23 (visualizer termination and marking): print_req returns, whatever
\* cycles the installed metadata has; never are more calls open than there
\* are installed keys, plus one; a requirement whose key is on the path that
\* leads to it is printed with the cycle and not descended into, one whose
\* key is not installed is printed UNMET and not descended into, and under
\* every other line stand the lines of exactly its requires(extras).
C23_VisualizerTerminates ==
    /\ <>(pc = "viz_done")
    /\ [](Len(viz_stack) <= Cardinality(Keys) + 1)
    /\ [](pc = "viz_done" => (viz_stack = <<>> /\ VizMarking))

\* C23 case: print_req has returned after printing a requirement marked
\* circular two levels down and another marked UNMET.
C23_Witness ==
    /\ pc = "viz_done"
    /\ \E i \in 1..Len(viz_out) :
          /\ viz_out[i].circular # <<>>
          /\ Len(viz_out[i].circular) = 3
          /\ viz_out[i].depth = 2
    /\ \E i \in 1..Len(viz_out) : viz_out[i].unmet /\ viz_out[i].depth > 0

----------------------------------------------------------------------------
(* One-level sufficiency of find_unpinned_requirements, in sessions whose  *)
(* metadata names extras.                                                  *)

\* Bound: the number of dependency edges in a session with extras.
MaxExtrasEdges == 2

\* The sections and requirements of the metadata in such a session: the
\* base section of a and b's extras x and y; a, b[x], b[x,y].
ExtrasSources == { <<"a", BaseSection>>, <<"b", "x">>, <<"b", "y">> }
ExtrasTargets ==
    { r \in SubRequirements : r.key = "a" \/ (r.key = "b" /\ r.extras # <<>>) }

\* A pytest session of an application with all four manifests, whose
\* installed projects ask extras of each other.
InitExtras ==
    /\ installed_things \in WorkingSets(ExtrasSources, ExtrasTargets, MaxExtrasEdges)
    /\ exists = [f \in FileNames |-> TRUE]
    /\ files = [f \in FileNames |-> Unread]
    /\ pc = "session"
    /\ error = NoError
    /\ WalkIdle
    /\ TopIdle
    /\ PinIdle
    /\ MoreIdle
    /\ UnitIdle

SpecPinnedExtras == InitExtras /\ [][NextPinned]_vars

\* find_unpinned_requirements has returned the empty set (so every declared
\* entry is installed: lines 125-126 raise otherwise).
NothingUnpinned == FindUnpinnedReturned /\ unpinned = {}

\* The keys of the full transitive closure of the declared requirements, as
\* get_pinned_versions_from_requirement walks it (lines 288-307: every
\* sub-requirement under the extras it is asked with).
DeclaredClosure == UNION { ClosureKeys(e[1]) : e \in Entries }

\* The extras the declared entries of key k ask for.
ExtrasDeclared(k) == UNION { Range(e[1].extras) : e \in { o \in Entries : o[1].key = k } }

\* No requirement reachable from a declared one asks a declared project for
\* an extra that no entry of that project declares.
ExtrasCovered ==
    \A e \in Entries : \A r \in NamedFrom(e[1]) :
        r.key \in DeclaredKeys => Range(r.extras) \subseteq ExtrasDeclared(r.key)

\* C24 as stated (one-level sufficiency): when find_unpinned_requirements
\* returns the empty set for the declared entries, every key of the full
\* transitive closure of every declared requirement, extras included, is
\* among the declared keys.
C24_AsStated == NothingUnpinned => DeclaredClosure \subseteq DeclaredKeys

\* C24, what lines 125-132 ensure: each declared project is looked at under
\* the extras of its own entries only, so the closure stays within the
\* declared keys when find_unpinned_requirements returns the empty set and
\* no reachable requirement asks a declared project for an extra that its
\* entries do not declare.
C24_SufficientUnderDeclaredExtras ==
    (NothingUnpinned /\ ExtrasCovered) => DeclaredClosure \subseteq DeclaredKeys

\* C24 case: the empty set is returned for two declared projects, one
\* reached from the other under the extra its entry declares, whose section
\* leads back to a declared key.
C24_Witness ==
    /\ NothingUnpinned
    /\ ExtrasCovered
    /\ Cardinality(DeclaredKeys) = 2
    /\ \E e \in Entries : \E r \in EdgesOf(Node(e[1])) :
          /\ r.key # e[1].key
          /\ r.extras # <<>>
          /\ EdgesOf(Node(r)) # {}

----------------------------------------------------------------------------
(* The order of the mismatch reports: C25.                                 *)

\* What the pin file of environment e declares beyond its expected set, and
\* what it lacks of it.
SurplusOf(e) == Decl(e) \ Wanted(e)
MissingOf(e) == Wanted(e) \ Decl(e)

\* The run failed on requirements.txt: requirements-dev.txt was never read.
FailedOnProd(report) ==
    /\ pc = "failed"
    /\ error = report
    /\ env_idx = 1
    /\ ~files[DevPins].read

\* C25 (mismatch report ordering): a run of test_top_level_dependencies
\* whose expected sets were computed ends with at most one mismatch, the
\* first in the order prod surplus, prod missing, dev surplus, dev missing;
\* the report names one pin file and lists one direction only, exactly the
\* surplus or exactly the missing pins of that file; a run that fails on
\* requirements.txt never reads requirements-dev.txt, so a dependency prod
\* needs that requirements.txt lacks (and that has no surplus) is reported as
\* missing from requirements.txt whatever requirements-dev.txt pins.
C25_MismatchReportOrdering ==
    (Terminal /\ ExpectedComputed) =>
        LET prod_surplus == SurplusOf("prod")
            prod_missing == MissingOf("prod")
            dev_compared == "dev" \in Envs /\ prod_surplus = {} /\ prod_missing = {}
            dev_surplus == IF dev_compared THEN SurplusOf("dev") ELSE {}
            dev_missing == IF dev_compared THEN MissingOf("dev") ELSE {}
        IN  /\ Seen("prod")
            /\ prod_surplus # {} => FailedOnProd(Surplus("prod", prod_surplus))
            /\ (prod_surplus = {} /\ prod_missing # {}) =>
                  /\ FailedOnProd(Missing("prod", prod_missing))
                  /\ \A r \in prod_missing :
                        /\ r \in error.listed
                        /\ error.pin = ProdPins
                        /\ error.kind = "RequiredButNotPinned"
            /\ dev_compared =>
                  /\ Seen("dev")
                  /\ dev_surplus # {} =>
                        (pc = "failed" /\ error = Surplus("dev", dev_surplus))
                  /\ (dev_surplus = {} /\ dev_missing # {}) =>
                        (pc = "failed" /\ error = Missing("dev", dev_missing))
            /\ (prod_surplus = {} /\ prod_missing = {} /\ dev_surplus = {} /\ dev_missing = {})
                  => (pc = "passed" /\ error = NoError)
            /\ error.kind \in MismatchKinds =>
                  \/ error = Surplus("prod", prod_surplus)
                  \/ error = Missing("prod", prod_missing) /\ prod_surplus = {}
                  \/ dev_compared /\ error = Surplus("dev", dev_surplus)
                  \/ dev_compared /\ error = Missing("dev", dev_missing) /\ dev_surplus = {}

\* C25 case: both dev files exist, requirements.txt has no surplus and
\* lacks a package that both minimal manifests reach; the run failed
\* listing it as missing from requirements.txt before reading
\* requirements-dev.txt.
C25_Witness ==
    /\ pc = "failed"
    /\ exists[DevMinimal]
    /\ exists[DevPins]
    /\ ExpectedComputed
    /\ SurplusOf("prod") = {}
    /\ error = Missing("prod", MissingOf("prod"))
    /\ ~files[DevPins].read
    /\ \E r \in error.listed : r \in WholeWanted("dev")
    /\ Decl("prod") # {}

----------------------------------------------------------------------------
(* The two worklist loops: get_pinned_versions_from_requirement of the     *)
(* checker and installed() of upgrade-requirements, the latter run one     *)
(* iteration of its while loop at a time.                                  *)

\* Bound: the number of dependency edges where the worklists are watched.
MaxWorkEdges == 2

\* Bound: the number of lines of the manifest installed() is called on.
MaxSeeds == 2

\* The lines that manifest is drawn from: a, a>=0.5, b[x], c.
SeedLines ==
    << Line("a", <<>>, <<>>),
       Line("a", <<>>, << <<">=", "0.5">> >>),
       Line("b", <<"x">>, <<>>),
       Line("c", <<>>, <<>>) >>

\* Lines 71-78: installed(requirements_file) called on a manifest of
\* installed projects.
InstalledCalled ==
    /\ installed_things \in WorkingSets(EdgeSources, SubRequirements, MaxWorkEdges)
    /\ exists = [f \in FileNames |-> f = ProdMinimal]
    /\ \E content \in Contents(SeedLines, MaxSeeds) :
          /\ files = [f \in FileNames |->
                        IF f = ProdMinimal THEN ReadAs(content) ELSE Unread]
          /\ installed_locals = InstalledLocals(TopRequirements(content))
    /\ installed_loops = 0
    /\ pc = "installed_loop"
    /\ error = NoError
    /\ WalkIdle
    /\ TopIdle
    /\ PinIdle
    /\ JsIdle /\ NpmIdle /\ VizIdle
    /\ UnitIdle

\* Lines 80-92: one iteration of the while loop.
InstalledStep ==
    /\ pc = "installed_loop"
    /\ installed_locals.requirements_to_parse # <<>>
    /\ installed_locals' = InstalledIteration(installed_locals)
    /\ installed_loops' = installed_loops + 1
    /\ UNCHANGED <<env_vars, files, pc, error, walk_vars, top_vars, pin_vars, parse_vars,
                   read_vars, dup_vars, upgrade_vars, js_vars, npm_vars, viz_vars>>

\* Lines 94-97: the worklist is empty; NeedsMoreInstalledError if anything
\* was unmet, else the set is returned.
InstalledReturn ==
    /\ pc = "installed_loop"
    /\ installed_locals.requirements_to_parse = <<>>
    /\ IF installed_locals.unmet # {}
       THEN /\ error' = [kind |-> "NeedsMoreInstalledError",
                         unmet |-> installed_locals.unmet]
            /\ pc' = "failed"
       ELSE /\ pc' = "installed_returned"
            /\ UNCHANGED error
    /\ UNCHANGED <<env_vars, files, walk_vars, top_vars, pin_vars, parse_vars,
                   read_vars, dup_vars, upgrade_vars, js_vars, npm_vars, viz_vars, work_vars>>

\* Either loop, called on any working set.
InitWorklists == WalkCalled(MaxWorkEdges) \/ InstalledCalled

NextWorklists ==
    \/ WalkPop \/ WalkSub \/ WalkSubEnd \/ WalkReturn
    \/ InstalledStep \/ InstalledReturn

SpecWorklists == InitWorklists /\ [][NextWorklists]_vars

\* The (key, extras) pairs that occur in the installed graph: those the
\* metadata of the installed projects names.
GraphPairs ==
    { Node(r) : r \in UNION { Range(installed_things[e[1]].dep_map[e[2]]) :
                                e \in { <<k, s>> \in EdgeSources :
                                          k \in DOMAIN installed_things } } }

\* The pairs of a list of requirements, in order.
PairsOf(list) == [i \in 1..Len(list) |-> ParsedKey(list[i])]

\* No member of the list occurs in it twice.
NoRepeat(list) == \A i, j \in 1..Len(list) : list[i] = list[j] => i = j

\* The iterations the walker has begun: every visited pair was pushed once,
\* and an iteration begins with a pop.
WalkLoops == Cardinality(already_parsed) - Len(requirements_to_parse)

\* What a step has pushed on a worklist, one member of which it may have
\* popped first.
Pushed(before, after, popped) == SubSeq(after, Len(before) + 1 - popped, Len(after))

\* The walker is running or has ended.
WalkerCalled == wpc # "idle"

\* installed() is running or has ended.
InstalledRunning == installed_locals # None

\* The requirements installed() was seeded with.
InstalledSeeds == TopRequirements(files[ProdMinimal].lines)

\* The worklist invariant of the walker, in a state.
WalkerWorklist ==
    WalkerCalled =>
        /\ \A i \in 1..Len(requirements_to_parse) :
              ParsedKey(requirements_to_parse[i]) \in already_parsed
        /\ NoRepeat(PairsOf(requirements_to_parse))
        /\ WalkLoops <= Cardinality(GraphPairs) + 1

\* The same over a step of the walker: what is pushed was not visited and is
\* visited afterwards, visited and result only grow, and an iteration is
\* counted exactly when the loop test finds the worklist non-empty.
WalkerStep ==
    WalkerCalled =>
        /\ LET new == Pushed(requirements_to_parse, requirements_to_parse',
                             IF wpc = "while" /\ wpc' = "for" THEN 1 ELSE 0)
           IN  /\ NoRepeat(PairsOf(new))
               /\ \A i \in 1..Len(new) :
                     /\ ParsedKey(new[i]) \notin already_parsed
                     /\ ParsedKey(new[i]) \in already_parsed'
        /\ already_parsed \subseteq already_parsed'
        /\ expected_pinned \subseteq expected_pinned'
        /\ WalkLoops' = WalkLoops + (IF wpc = "while" /\ wpc' = "for" THEN 1 ELSE 0)

\* The worklist of installed(), in a state: its members are visited.
InstalledWorklist ==
    InstalledRunning =>
        \A i \in 1..Len(installed_locals.requirements_to_parse) :
            ParsedKey(installed_locals.requirements_to_parse[i])
                \in installed_locals.already_parsed

\* Over an iteration of installed(): what is pushed was not visited and is
\* visited afterwards, and visited and result only grow.
InstalledStepGrows ==
    (InstalledRunning /\ installed_loops' # installed_loops) =>
        /\ LET new == Pushed(installed_locals.requirements_to_parse,
                             installed_locals'.requirements_to_parse, 1)
           IN  /\ NoRepeat(PairsOf(new))
               /\ \A i \in 1..Len(new) :
                     /\ ParsedKey(new[i]) \notin installed_locals.already_parsed
                     /\ ParsedKey(new[i]) \in installed_locals'.already_parsed
        /\ installed_locals.already_parsed \subseteq installed_locals'.already_parsed
        /\ installed_locals.expected_pinned \subseteq installed_locals'.expected_pinned

\* C26 as stated (worklist invariant), of both loops: no pair is on a
\* worklist twice, the seeds included, and the iterations are at most the
\* number of distinct pairs of the installed graph plus one.
C26_AsStated ==
    /\ WalkerWorklist
    /\ InstalledWorklist
    /\ InstalledRunning =>
          /\ NoRepeat(PairsOf(installed_locals.requirements_to_parse))
          /\ installed_loops <= Cardinality(GraphPairs) + 1

\* C26 (worklist invariant), amended: at every step of either loop every
\* requirement in the worklist has its (key, extras) pair in the visited
\* set, a pair is pushed only when it was not visited (so at most once) and
\* the visited set and the result set only grow. The walker of the checker
\* has one seed: no pair is on its worklist twice and its iterations are at
\* most the number of distinct pairs of the installed graph plus one.
\* installed() is seeded with every requirement of the manifest, a pair as
\* often as the manifest lists it: its iterations are at most the number of
\* distinct pairs of the installed graph plus the number of seeds.
C26_WorklistInvariant ==
    /\ [](WalkerWorklist /\ InstalledWorklist)
    /\ [](InstalledRunning =>
            installed_loops <= Cardinality(GraphPairs) + Len(InstalledSeeds))
    /\ [][WalkerStep /\ InstalledStepGrows]_vars

\* C26 case: the walker came again upon a visited pair with work left, and
\* (in another run) installed() ended after more iterations than the graph
\* has pairs plus one.
C26_WalkerWitness ==
    /\ wpc = "for"
    /\ sub_iter # <<>>
    /\ ParsedKey(Head(sub_iter)) \in already_parsed
    /\ requirements_to_parse # <<>>
    /\ WalkLoops = 2

C26_InstalledWitness ==
    /\ pc = "installed_returned"
    /\ installed_loops = 3
    /\ Len(InstalledSeeds) = 2
    /\ Cardinality(GraphPairs) = 1

C26_Witness == C26_WalkerWitness \/ C26_InstalledWitness

----------------------------------------------------------------------------
(* Pins that carry extras: C28.                                            *)

\* Every expected pin the run has built so far, as the strings it holds.
ExpectedStrings ==
    expected_pinned \cup ret \cup expected_pinned_prod \cup expected_pinned_dev
        \cup UNION { environments[i].expected : i \in 1..Len(environments) }

----------------------------------------------------------------------------
(* The integrity fixture: C29.                                             *)

IntegrityKinds == {"NoRequirements", "PinNotInstalled", "IntegrityMismatch"}

\* _check_requirements_integrity_impl has passed or raised.
IntegrityOver == "integrity" \in fixtures \/ error.kind \in IntegrityKinds

\* The positions of the pinned entries whose key is not installed.
PinnedNotInstalled ==
    { i \in 1..Len(raw_requirements) :
        /\ Pinned(raw_requirements[i][1])
        /\ raw_requirements[i][1].key \notin DOMAIN installed_things }

\* A pinned entry of an installed key whose version is not the normalized
\* installed version.
VersionDiffers(e) ==
    /\ Pinned(e[1])
    /\ e[1].key \in DOMAIN installed_things
    /\ e[1].specs[1][2] # safe_version(installed_things[e[1].key].version)

\* Those entries in the order of the files, each as (filename, key, pinned
\* version, installed version).
AllIncorrect ==
    LET differing == SelectSeq(raw_requirements, VersionDiffers)
    IN  [i \in 1..Len(differing) |->
            <<differing[i][2], differing[i][1].key, differing[i][1].specs[1][2],
              safe_version(installed_things[differing[i][1].key].version)>>]

\* C29 (installed-version integrity): once the integrity check is over, it
\* has failed exactly in one of three ways and passed otherwise: with no
\* requirement at all in the checked pin files; else at the first pinned
\* entry whose key is not installed, naming that key and its file; else,
\* some pinned entry differing from the normalized installed version, with
\* one error that lists every such entry in order. Entries that are not
\* pinned count for nothing but the first of these.
C29_InstalledVersionIntegrity ==
    IntegrityOver =>
        IF raw_requirements = <<>>
        THEN pc = "failed" /\ error = [kind |-> "NoRequirements"]
        ELSE IF PinnedNotInstalled # {}
        THEN LET first == CHOOSE i \in PinnedNotInstalled :
                              \A j \in PinnedNotInstalled : i <= j
             IN  /\ pc = "failed"
                 /\ error = [kind |-> "PinNotInstalled",
                             key |-> raw_requirements[first][1].key,
                             file |-> raw_requirements[first][2]]
        ELSE IF AllIncorrect # <<>>
        THEN /\ pc = "failed"
             /\ error = [kind |-> "IntegrityMismatch", incorrect |-> AllIncorrect]
        ELSE /\ "integrity" \in fixtures
             /\ error.kind \notin IntegrityKinds

\* C29 case: both pin files pin a at a version that is not installed; the
\* check failed once, listing both entries.
C29_Witness ==
    /\ pc = "failed"
    /\ error.kind = "IntegrityMismatch"
    /\ Len(error.incorrect) = 2
    /\ error.incorrect[1][1] # error.incorrect[2][1]

----------------------------------------------------------------------------
(* The lifetime of the temporary virtualenv directory: C30.                *)

\* C30 (temporary environment lifetime): in the upgrade workflow the
\* temporary directory is gone whenever the process has ended without a
\* re-exec, by writing the pin files or by any failure, and it is there
\* whenever a process runs that was handed --tempdir by a re-exec; a step
\* that re-execs leaves it in place, and no directory exists before the
\* first process makes one.
C30_TempdirLifetime ==
    /\ [](UpgradeOver => ~tempdir_on_disk)
    /\ []((pc = "upgrade" /\ tempdir) => tempdir_on_disk)
    /\ [](~tempdir => ~tempdir_on_disk)
    /\ [][(pc' = "upgrade" /\ (reexecs' # reexecs \/ tempdir' # tempdir))
             => tempdir_on_disk']_vars

\* C30 case: a run that re-executed itself for unmet dependencies and then
\* wrote the pin files has ended, the directory gone.
C30_Witness ==
    /\ reexecs >= 1
    /\ ~tempdir_on_disk
    /\ upgraded

====
